---- MODULE Spec2Model ----
(***************************************************************************)
(* TabCap (Limit-Safari-Tabs-MacOS): the background script of the Safari   *)
(* extension (src/unnamed/part_000) and the parts of the popup that feed   *)
(* it (src/TabCap Extension/popup.js).                                     *)
(*                                                                         *)
(* Strings are sequences of one-character strings.  A URL is a record      *)
(* [scheme, host]: scheme "" is the empty/undefined URL, "about" an        *)
(* about: page, "https" a web page whose authority is host.                *)
(***************************************************************************)
EXTENDS Integers, Sequences, FiniteSets, TLC

(***************************************************************************)
(* Bounds of the model.                                                    *)
(***************************************************************************)
MaxHostPieces == 3
MaxEntryPieces == 3
MaxTabId == 3
MaxLimit == 2
MaxEnv == 1
MaxNav == 2
MaxStamp == 2
MaxNow == 4
InactiveMinutes == 2
MaxMinTabs == 2
MaxCorralLen == 3
MaxCorralMax == 2
MaxExpireHours == 2
MaxHours == 2
MaxOpened == 1
MaxDispatched == 2
MaxFailures == 2
MaxShownTabs == 3
MaxShownMinTabs == 5
MaxClicks == 2
MaxDays == 3
MaxBlocked == 3
MaxActivations == 2
MaxAlarms == 1
MaxMessages == 2
MaxTyped == 3
MaxSaves == 1

(***************************************************************************)
(* Program constants.                                                      *)
(***************************************************************************)
MAX_TABS == 3
DEFAULT_INACTIVE_MINUTES == 30
DEFAULT_MIN_TABS == 5
DEFAULT_CORRAL_MAX == 100
DEFAULT_CORRAL_EXPIRE_HOURS == 24
CORRAL_MAX_FALLBACK == 100
MinutesPerHour == 60
MAX_TABS_CEILING == 500
MIN_TABS_CEILING == 50
DEFAULT_DEBOUNCE_DELAY == 1

Windows == {1, 2}

(***************************************************************************)
(* Strings.                                                                *)
(***************************************************************************)
Www == <<"w", "w", "w", ".">>
Dot == <<".">>

Pieces == {Www, Dot, <<"a">>, <<"B">>}

RECURSIVE Flatten(_)
Flatten(ps) == IF ps = <<>> THEN <<>> ELSE Head(ps) \o Flatten(Tail(ps))

PieceStrings(n) == {Flatten(ps) : ps \in UNION {[1..k -> Pieces] : k \in 0..n}}

toLowerCase(s) == [i \in 1..Len(s) |-> IF s[i] = "B" THEN "b" ELSE s[i]]

startsWith(s, p) == Len(s) >= Len(p) /\ SubSeq(s, 1, Len(p)) = p

endsWith(s, p) == Len(s) >= Len(p) /\ SubSeq(s, Len(s) - Len(p) + 1, Len(s)) = p

\* s.replace(/^www\./, "")
stripWww(s) == IF startsWith(s, Www) THEN SubSeq(s, Len(Www) + 1, Len(s)) ELSE s

(***************************************************************************)
(* URLs.                                                                   *)
(***************************************************************************)
NoUrl == [scheme |-> "", host |-> <<>>]
AboutBlank == [scheme |-> "about", host |-> <<>>]
Https(h) == [scheme |-> "https", host |-> h]

\* new URL(url).hostname: the parser lower-cases the authority; new URL("")
\* throws, which callers catch.
UrlParses(url) == url.scheme # ""
UrlHostname(url) == toLowerCase(url.host)

\* A well-formed authority: no empty label.
ValidHost(h) ==
    /\ Len(h) > 0
    /\ h[1] # "."
    /\ h[Len(h)] # "."
    /\ \A i \in 1..(Len(h) - 1) : ~(h[i] = "." /\ h[i + 1] = ".")

isRealUrl(url) == url.scheme \in {"http", "https"}

isInternalUrl(url) == url.scheme \in {"", "about", "safari-resource", "safari-web-extension", "favorites", "chrome"}

\* popup.js sanitizeDomain on the characters of the model: lower-case, then
\* one leading "www." removed (no blank, scheme, path, query or hash
\* character is in the alphabet).
sanitizeDomain(input) == stripWww(toLowerCase(input))

isUrlAllowedMutant(url, allowlist) ==
    IF url.scheme = "" \/ Len(allowlist) = 0 THEN FALSE
    ELSE IF ~UrlParses(url) THEN FALSE
    ELSE LET hostname == stripWww(toLowerCase(UrlHostname(url)))
         IN  \E i \in 1..Len(allowlist) :
                LET cleanDomain == stripWww(toLowerCase(allowlist[i]))
                IN  hostname = cleanDomain \/ endsWith(hostname, cleanDomain)

isUrlAllowed(url, allowlist) ==
    IF url.scheme = "" \/ Len(allowlist) = 0 THEN FALSE
    ELSE IF ~UrlParses(url) THEN FALSE
    ELSE LET hostname == stripWww(toLowerCase(UrlHostname(url)))
         IN  \E i \in 1..Len(allowlist) :
                LET cleanDomain == stripWww(toLowerCase(allowlist[i]))
                IN  hostname = cleanDomain \/ endsWith(hostname, Dot \o cleanDomain)

(***************************************************************************)
(* State.                                                                  *)
(***************************************************************************)
VARIABLES
    tabs,               \* host: the open tabs, id -> [windowId, url, active, pinned, audible]
    nextTabId,          \* host: the id the next created tab gets
    today,              \* host clock: the date, a day number
    settings,           \* storage key "settings" merged over DEFAULT_SETTINGS
    stats,              \* storage key "stats"
    tabCorral,          \* storage key "tabCorral"
    pendingTabs,        \* const pendingTabs (the keys of the Map)
    allowlistTabs,      \* const allowlistTabs
    corralRestoredTabs, \* const corralRestoredTabs
    handlers,           \* the async handlers in flight, each suspended at an await
    timers,             \* setTimeout callbacks that have not fired yet
    envCount,           \* how many navigations, user closes and window moves so far
    closedCount,        \* history: how many tabs closeTab has removed
    lastClose,          \* history: the last tab closeTab removed, and for whom
    lastCreated,        \* history: what handleTabCreated last decided
    everRestored,       \* history: restoreFromCorral has opened a tab
    lastQuery,          \* the last GET_TAB_COUNT request and its answer
    lastTrigger,        \* history: the last call of checkInactiveTabs
    lastCorralOp,       \* history: the addToCorral or cleanExpiredCorral just run
    bcast,              \* TAB_COUNT_UPDATED: calls of broadcastTabCount to come, last message
    calls,              \* the handler whose host API calls are followed, and how the last one ended
    popup,              \* popup.js: its settings object, the SAVE_SETTINGS messages under way
    lastStats,          \* history: the last GET_STATS, what was stored and what it answered
    activated,          \* activatedDebounceTabId, activatedDebounceTimer, the timeouts set
    messages,           \* runtime messages from the popup not yet handled, and the last one handled
    persist,            \* persistDirty, persistTimer, storage key "tabActivity", writes under way
    tabLastAccessed,    \* const tabLastAccessed: tab id -> time of last use
    now,                \* host clock: Date.now(), in minutes
    reaper,             \* checkInactiveTabs: its mutex, throttle stamp and position
    lastPass            \* history: what the last Reaper pass saw and chose

hostVars == <<tabs, nextTabId, today>>
storeVars == <<settings, stats, tabCorral>>
memVars == <<pendingTabs, allowlistTabs, corralRestoredTabs>>
schedVars == <<handlers, timers>>
histVars == <<envCount, closedCount, lastClose, lastCreated, everRestored>>
reaperVars == <<tabLastAccessed, now, reaper, lastPass>>
\* the state of the popup, of the activation debounce and of the activity flush
moreVars == <<popup, lastStats, activated, messages>>
obsVars == <<lastQuery, lastTrigger, lastCorralOp, bcast, calls, moreVars, persist>>
obsNotQuery == <<lastTrigger, lastCorralOp, bcast, calls, moreVars, persist>>
obsNotTrigger == <<lastQuery, lastCorralOp, bcast, calls, moreVars, persist>>
obsNotCorral == <<lastQuery, lastTrigger, bcast, calls, moreVars, persist>>
obsNotBcast == <<lastQuery, lastTrigger, lastCorralOp, calls, moreVars, persist>>
obsNotCalls == <<lastQuery, lastTrigger, lastCorralOp, bcast, moreVars, persist>>
obsOnly == <<lastQuery, lastTrigger, lastCorralOp, bcast, calls>>
obsNotPersist == <<obsOnly, moreVars>>
obsNotBcastPersist == <<lastQuery, lastTrigger, lastCorralOp, calls, moreVars>>
obsNotActivation == <<obsOnly, popup, lastStats, messages>>
obsNotMessages == <<obsOnly, popup, lastStats, activated, persist>>
vars == <<hostVars, storeVars, memVars, schedVars, histVars, obsVars, reaperVars>>

TabIds == 1..MaxTabId

DEFAULT_SETTINGS ==
    [enabled |-> TRUE, maxTabs |-> MAX_TABS, globalLimit |-> FALSE,
     allowlistEnabled |-> FALSE, allowlist |-> <<>>, tabLimitLocked |-> FALSE,
     inactiveEnabled |-> FALSE, inactiveMinutes |-> DEFAULT_INACTIVE_MINUTES,
     protectPinned |-> TRUE, protectAudible |-> TRUE, protectAllowlist |-> TRUE,
     minTabs |-> DEFAULT_MIN_TABS, corralMax |-> DEFAULT_CORRAL_MAX,
     corralExpireHours |-> DEFAULT_CORRAL_EXPIRE_HOURS,
     wrangleOption |-> "exactURLMatch", debounceDelay |-> DEFAULT_DEBOUNCE_DELAY]

\* Dates are day numbers from 1; 0 stands for null.
DEFAULT_STATS ==
    [currentStreak |-> 0, bestStreak |-> 0, blockedToday |-> 0, blockedWeek |-> 0,
     blockedTotal |-> 0, inactiveClosed |-> 0, lastActiveDate |-> 0,
     lastBlockDate |-> 0, weekStartDate |-> 0]

Tab(w, u) == [windowId |-> w, url |-> u, active |-> FALSE, pinned |-> FALSE, audible |-> FALSE]

\* The web pages of the enforcement specification.
UrlA == Https(<<"a">>)
UrlB == Https(<<"B">>)

NoEnv == [nav |-> 0, removed |-> 0, attached |-> 0]
NoClose == [by |-> "none", trigger |-> 0, tab |-> 0, grace |-> FALSE]
NoCreated ==
    [tab |-> 0, url |-> NoUrl, exempt |-> FALSE, tracked |-> FALSE, raw |-> 0,
     selfCounted |-> FALSE, sameUrl |-> FALSE, closeIssued |-> FALSE, target |-> 0]
NoQuery == [asked |-> FALSE]
NoTrigger == [force |-> FALSE, throttled |-> FALSE, running |-> FALSE, started |-> FALSE]

NoCorralOp == [op |-> "none"]

\* bcast.on: the messages are followed (in SpecBroadcastFair only)
NoBcast == [on |-> FALSE, owed |-> FALSE, sent |-> -1]

\* no handler followed, none ended
NoCalls == [handler |-> "none", pc |-> 0, ended |-> "none", outcome |-> "none",
            api |-> "none", failures |-> 0, dispatched |-> 0]

\* the popup is closed; action, phrase and typed are currentFrictionAction,
\* currentFrictionPhrase and the value of the phrase input, hides counts the
\* confirmFrictionAction calls whose saveSettings has not settled
NoPopup == [open |-> FALSE, settings |-> DEFAULT_SETTINGS, msgs |-> {},
            action |-> "none", phrase |-> <<>>, typed |-> <<>>, hides |-> 0]

NoStats == [asked |-> FALSE]

\* no activation yet: ids are 0 for null; last, stampedTab and latestAtStamp
\* are history (the tab of the last onActivated event, the tab the debounce
\* callback last stamped and the last event's tab at that moment)
NoActivated ==
    [tabId |-> 0, timer |-> 0, timeouts |-> {}, events |-> 0,
     last |-> 0, stampedTab |-> 0, latestAtStamp |-> 0]

\* persist.on: the flush of the activity map is followed (in SpecActivity only)
NoPersist ==
    [on |-> FALSE, dirty |-> FALSE, timer |-> FALSE, stored |-> [t \in {} |-> 0],
     inflight |-> <<>>]

\* no message under way, none handled
NoMessages == [inflight |-> {}, sent |-> 0, last |-> [type |-> "none"]]

MoreAtRest ==
    /\ popup = NoPopup /\ lastStats = NoStats
    /\ activated = NoActivated /\ persist = NoPersist
    /\ messages = NoMessages

ObsAtRest ==
    /\ lastTrigger = NoTrigger /\ lastCorralOp = NoCorralOp /\ bcast = NoBcast /\ calls = NoCalls
    /\ MoreAtRest

(***************************************************************************)
(* Tab Accountant.                                                         *)
(***************************************************************************)
\* browser.tabs.query({ windowId }) and browser.tabs.query({})
queryWindow(windowId) == {t \in DOMAIN tabs : tabs[t].windowId = windowId}
queryAll == DOMAIN tabs

\* tabs.filter((tab) => !isUrlAllowed(tab.url, settings.allowlist)) when the
\* allowlist is enabled and not empty, else all of them
countedTabs(ids, s) ==
    IF s.allowlistEnabled /\ Len(s.allowlist) > 0
    THEN {t \in ids : ~isUrlAllowed(tabs[t].url, s.allowlist)}
    ELSE ids

getWindowTabCount(windowId, s) == Cardinality(countedTabs(queryWindow(windowId), s))

getGlobalTabCount(s) == Cardinality(countedTabs(queryAll, s))

getCurrentTabCountMutant(windowId, s) ==
    IF s.globalLimit
    THEN Cardinality({t \in queryAll : ~isUrlAllowed(tabs[t].url, s.allowlist)})
    ELSE Cardinality({t \in queryWindow(windowId) : ~isUrlAllowed(tabs[t].url, s.allowlist)})

getCurrentTabCount(windowId, s) ==
    IF s.globalLimit THEN getGlobalTabCount(s) ELSE getWindowTabCount(windowId, s)

\* The tabs getCurrentTabCount counts (its filter result, before .length).
currentCounted(windowId, s) ==
    IF s.globalLimit THEN countedTabs(queryAll, s) ELSE countedTabs(queryWindow(windowId), s)

(***************************************************************************)
(* Stats store.                                                            *)
(***************************************************************************)
\* getWeekStart(): the Sunday of the current week (day 0 is a Sunday)
getWeekStart(day) == day - (day % 7)

updateStreak(s, day) ==
    LET s1 == IF s.lastActiveDate = 0
              THEN [s EXCEPT !.currentStreak = 1, !.lastActiveDate = day]
              ELSE IF s.lastActiveDate = day THEN s
              ELSE IF s.lastActiveDate = day - 1
              THEN [s EXCEPT !.currentStreak = s.currentStreak + 1, !.lastActiveDate = day]
              ELSE [s EXCEPT !.currentStreak = 1, !.lastActiveDate = day]
    IN  IF s1.currentStreak > s1.bestStreak
        THEN [s1 EXCEPT !.bestStreak = s1.currentStreak]
        ELSE s1

getStatsMutant(s, day) ==
    LET s2 == IF s.weekStartDate # getWeekStart(day)
              THEN [s EXCEPT !.blockedWeek = 0, !.weekStartDate = getWeekStart(day)]
              ELSE s
    IN  updateStreak(s2, day)

\* getStats() on the stored value s read on date day
getStats(s, day) ==
    LET s1 == IF s.lastBlockDate # day THEN [s EXCEPT !.blockedToday = 0] ELSE s
        s2 == IF s1.weekStartDate # getWeekStart(day)
              THEN [s1 EXCEPT !.blockedWeek = 0, !.weekStartDate = getWeekStart(day)]
              ELSE s1
    IN  updateStreak(s2, day)

\* incrementBlocked(): the value it hands to saveStats, from the value read
incrementBlocked(s, day) ==
    LET g == getStats(s, day)
    IN  updateStreak([g EXCEPT !.blockedToday = g.blockedToday + 1,
                               !.blockedWeek = g.blockedWeek + 1,
                               !.blockedTotal = g.blockedTotal + 1,
                               !.lastBlockDate = day], day)


\* incrementInactiveClosed(count): the value it hands to saveStats
incrementInactiveClosed(s, day, count) ==
    LET g == getStats(s, day)
    IN  [g EXCEPT !.inactiveClosed = g.inactiveClosed + count]
(***************************************************************************)
(* The activity map in storage.  persist.inflight holds the calls of       *)
(* storage.local.set({ tabActivity }) that have not answered, in the order *)
(* they were made, each with the data it carries and the caller that       *)
(* awaits it.                                                              *)
(***************************************************************************)

\* persistTabActivity(): the map is dirty, the 2 s timer is set anew
persistTabActivity(p) ==
    IF ~p.on THEN p ELSE [p EXCEPT !.dirty = TRUE, !.timer = TRUE]

\* _flushPersist() up to its await: nothing when the map is not dirty, else
\* the flag and the timer are cleared and the map as it is now is sent
flushPersist(p, data, by) ==
    IF ~p.on \/ ~p.dirty THEN p
    ELSE [p EXCEPT !.dirty = FALSE, !.timer = FALSE,
                   !.inflight = Append(@, [data |-> data, by |-> by])]

\* persistTabActivityNow() up to its await
persistTabActivityNow(p, data, by) ==
    IF ~p.on THEN p ELSE flushPersist([p EXCEPT !.dirty = TRUE], data, by)

\* the 2 s timer of persistTabActivity fires: its callback calls _flushPersist
PersistTimerFires ==
    /\ persist.timer
    /\ persist' = flushPersist(persist, tabLastAccessed, "timer")
    /\ UNCHANGED <<hostVars, storeVars, memVars, schedVars, histVars, obsNotPersist, reaperVars>>

(***************************************************************************)
(* Enforcement Policy.  A handler in flight is a record                    *)
(*   kind   created | updated | pending | restore                          *)
(*   tab    the tab whose event started it (restore: the tab it opened)    *)
(*   pc     the await it is suspended at                                   *)
(*   url, win   the event's tab.url and tab.windowId (restore: the         *)
(*              entry's url)                                               *)
(*   cnt    const tabCount                                                 *)
(*   target the argument of its closeTab call                              *)
(*   st     the stats incrementBlocked is about to save                    *)
(*   idx, corral   restore: message.index and the spliced list             *)
(*   raw, tracked, selfCounted, sameUrl   history, for lastCreated         *)
(*   cse, was   handleTabUpdated: the case it took, wasAllowlisted         *)
(***************************************************************************)
Handler(kind, tab, pc, url, win) ==
    [kind |-> kind, tab |-> tab, pc |-> pc, url |-> url, win |-> win,
     cnt |-> 0, target |-> 0, st |-> DEFAULT_STATS, idx |-> 0, corral |-> <<>>,
     raw |-> 0, tracked |-> FALSE, selfCounted |-> FALSE, sameUrl |-> FALSE,
     cse |-> "", was |-> FALSE]

Replace(h, h2) == (handlers \ {h}) \cup {h2}

\* History only: the tabs the host reports for the scope of window w.
RawScope(w) == {t \in DOMAIN tabs : settings.globalLimit \/ tabs[t].windowId = w}

RemoveTabFrom(f, t) == [x \in (DOMAIN f) \ {t} |-> f[x]]

\* restoreFromCorral calls that have not opened their tab yet
RestoresInFlight == {h \in handlers : h.kind = "restore" /\ h.pc # "mark"}

\* A restored tab is in its grace window from its creation until the 5 s
\* timer of restoreFromCorral fires.
InGrace(t) ==
    \/ \E h \in handlers : h.kind = "restore" /\ h.pc = "mark" /\ h.tab = t
    \/ [kind |-> "grace", tab |-> t] \in timers

\* ---- TAB_COUNT_UPDATED --------------------------------------------------

\* What the host answers to tabs.query({active: true, currentWindow: true})
activeTabs == {t \in DOMAIN tabs : tabs[t].active}

\* The count the popup shows: that of the active tab's scope.
ShownCount ==
    IF activeTabs = {} THEN -1
    ELSE getCurrentTabCount(tabs[CHOOSE t \in activeTabs : TRUE].windowId, settings)

\* A call of broadcastTabCount that has not answered yet, and the 100 ms
\* timer of handleTabRemoved that makes one.
BroadcastCall == Handler("broadcast", 0, "start", NoUrl, 0)
BroadcastTimer == [kind |-> "broadcast", tab |-> 0]
Calls(hs) == IF bcast.on THEN hs ELSE {}

\* The step sent TAB_COUNT_UPDATED{cnt} (sends) or not; a change of the shown
\* count is owed a message until one carries the count of its moment.
Noted(sends, cnt) ==
    bcast' = IF ~bcast.on THEN bcast
             ELSE [bcast EXCEPT
                     !.sent = IF sends THEN cnt ELSE @,
                     !.owed = IF sends /\ cnt = ShownCount' THEN FALSE
                              ELSE IF ShownCount' # ShownCount
                              THEN TRUE ELSE @]

\* ---- host and user ------------------------------------------------------

EnvEvents == envCount.nav + envCount.removed + envCount.attached

\* The user opens a tab in window w; the host fires onCreated with the tab.
CreateTab(w, u) ==
    /\ nextTabId + Cardinality(RestoresInFlight) <= MaxTabId
    /\ tabs' = tabs @@ (nextTabId :> Tab(w, u))
    /\ nextTabId' = nextTabId + 1
    /\ handlers' = handlers \cup {Handler("created", nextTabId, "start", u, w)}
    /\ UNCHANGED <<today, storeVars, memVars, timers, histVars, obsNotBcast, reaperVars>>
    /\ Noted(FALSE, 0)

\* A tab loads URL u (or reloads its own); the host fires onUpdated.
\* handleTabUpdated returns at once for a URL that is not real.  The host
\* and the user act at most budget times.
NavigateWithin(t, u, budget) ==
    /\ t \in DOMAIN tabs
    /\ EnvEvents < budget
    /\ ~\E h \in handlers : h.kind = "updated" /\ h.tab = t
    /\ tabs' = [tabs EXCEPT ![t].url = u]
    /\ envCount' = [envCount EXCEPT !.nav = @ + 1]
    /\ handlers' = IF isRealUrl(u)
                   THEN handlers \cup {Handler("updated", t, "start", u, tabs[t].windowId)}
                   ELSE handlers
    /\ UNCHANGED <<nextTabId, today, storeVars, memVars, timers,
                   closedCount, lastClose, lastCreated, everRestored, obsNotBcast, reaperVars>>
    /\ Noted(FALSE, 0)

Navigate(t, u) == NavigateWithin(t, u, MaxEnv)

\* The user types a URL into the address bar of tab t: the page loads and
\* Safari fires no onUpdated, so no handler runs.
TypedNavigate(t, u) ==
    /\ t \in DOMAIN tabs
    /\ EnvEvents < MaxEnv
    /\ tabs[t].url # u
    /\ tabs' = [tabs EXCEPT ![t].url = u]
    /\ envCount' = [envCount EXCEPT !.nav = @ + 1]
    /\ UNCHANGED <<nextTabId, today, storeVars, memVars, schedVars,
                   closedCount, lastClose, lastCreated, everRestored, obsNotBcast, reaperVars>>
    /\ Noted(FALSE, 0)

\* The user closes a tab; the host fires onRemoved and handleTabRemoved
\* clears the tab's entries and sets its timer.
UserRemoveTab(t) ==
    /\ t \in DOMAIN tabs
    /\ EnvEvents < MaxEnv
    /\ tabs' = RemoveTabFrom(tabs, t)
    /\ envCount' = [envCount EXCEPT !.removed = @ + 1]
    /\ pendingTabs' = pendingTabs \ {t}
    /\ allowlistTabs' = allowlistTabs \ {t}
    /\ tabLastAccessed' = RemoveTabFrom(tabLastAccessed, t)
    /\ timers' = timers \cup Calls({BroadcastTimer})
    /\ persist' = persistTabActivity(persist)
    /\ UNCHANGED <<nextTabId, today, storeVars, corralRestoredTabs, handlers,
                   closedCount, lastClose, lastCreated, everRestored, obsNotBcastPersist,
                   now, reaper, lastPass>>
    /\ Noted(FALSE, 0)

\* The user drags a tab to the other window: onDetached and onAttached,
\* whose handlers only broadcast the count.
AttachTab(t, w) ==
    /\ t \in DOMAIN tabs
    /\ tabs[t].windowId # w
    /\ EnvEvents < MaxEnv
    /\ tabs' = [tabs EXCEPT ![t].windowId = w]
    /\ envCount' = [envCount EXCEPT !.attached = @ + 1]
    /\ handlers' = handlers \cup Calls({BroadcastCall})
    /\ UNCHANGED <<nextTabId, today, storeVars, memVars, timers,
                   closedCount, lastClose, lastCreated, everRestored, obsNotBcast, reaperVars>>
    /\ Noted(FALSE, 0)

\* ---- closeTab -----------------------------------------------------------

closeTargetMutant(h) ==
    IF RawScope(h.win) = {} THEN h.tab
    ELSE CHOOSE t \in RawScope(h.win) : \A x \in RawScope(h.win) : t <= x

\* The argument the handlers pass to closeTab: their own tab.
closeTarget(h) == h.tab

\* closeTab up to its await of browser.tabs.remove
BeginClose(h) == [h EXCEPT !.pc = "remove", !.target = closeTarget(h)]

\* browser.tabs.remove(tabId) runs: the tab goes (and handleTabRemoved clears
\* its entries), or the call rejects (tab already gone) and closeTab's catch
\* ends the handler.
CloseRemove(h) ==
    /\ h.pc = "remove"
    /\ IF h.target \in DOMAIN tabs
       THEN /\ tabs' = RemoveTabFrom(tabs, h.target)
            /\ pendingTabs' = pendingTabs \ {h.target}
            /\ allowlistTabs' = allowlistTabs \ {h.target}
            /\ tabLastAccessed' = RemoveTabFrom(tabLastAccessed, h.target)
            /\ closedCount' = closedCount + 1
            /\ lastClose' = [by |-> h.kind, trigger |-> h.tab, tab |-> h.target,
                             grace |-> InGrace(h.target)]
            /\ handlers' = Replace(h, [h EXCEPT !.pc = "getStats"])
            /\ timers' = timers \cup Calls({BroadcastTimer})
            /\ persist' = persistTabActivity(persist)
       ELSE /\ handlers' = handlers \ {h}
            /\ UNCHANGED <<tabs, pendingTabs, allowlistTabs, tabLastAccessed,
                           closedCount, lastClose, timers, persist>>
    /\ UNCHANGED <<nextTabId, today, storeVars, corralRestoredTabs,
                   envCount, lastCreated, everRestored, obsNotBcastPersist, now, reaper, lastPass>>
    /\ Noted(FALSE, 0)

\* incrementBlocked: storage.get("stats") answers, the counters are raised
CloseGetStats(h) ==
    /\ h.pc = "getStats"
    /\ handlers' = Replace(h, [h EXCEPT !.pc = "saveStats",
                                        !.st = incrementBlocked(stats, today)])
    /\ UNCHANGED <<hostVars, storeVars, memVars, timers, histVars, obsVars, reaperVars>>

\* incrementBlocked: storage.set({ stats }) runs
CloseSaveStats(h) ==
    /\ h.pc = "saveStats"
    /\ stats' = h.st
    /\ handlers' = handlers \ {h}
    /\ UNCHANGED <<hostVars, settings, tabCorral, memVars, timers, histVars, obsVars, reaperVars>>

\* ---- handleTabCreated ---------------------------------------------------

\* What handleTabCreated recorded of the tab it has finished with.
Created(h, exempt, closeIssued) ==
    [tab |-> h.tab, url |-> h.url, exempt |-> exempt, tracked |-> h.tracked,
     raw |-> h.raw, selfCounted |-> h.selfCounted, sameUrl |-> h.sameUrl,
     closeIssued |-> closeIssued, target |-> IF closeIssued THEN closeTarget(h) ELSE 0]

\* getSettings() answers: the enabled check, the corral exemption, the
\* tracking of an allowlisted tab, up to the await of getCurrentTabCount.
CreatedStart(h) ==
    /\ h.kind = "created" /\ h.pc = "start"
    /\ IF ~settings.enabled
       THEN /\ handlers' = handlers \ {h}
            /\ UNCHANGED <<allowlistTabs, lastCreated>>
       ELSE IF h.tab \in corralRestoredTabs
       THEN /\ handlers' = (handlers \ {h}) \cup Calls({BroadcastCall})
            /\ lastCreated' = Created([h EXCEPT !.raw = Cardinality(RawScope(h.win))],
                                      TRUE, FALSE)
            /\ UNCHANGED allowlistTabs
       ELSE LET track == /\ settings.allowlistEnabled
                         /\ isRealUrl(h.url)
                         /\ isUrlAllowed(h.url, settings.allowlist)
            IN  /\ allowlistTabs' = IF track THEN allowlistTabs \cup {h.tab}
                                    ELSE allowlistTabs
                /\ handlers' = Replace(h, [h EXCEPT !.pc = "count", !.tracked = track])
                /\ UNCHANGED lastCreated
    /\ UNCHANGED <<hostVars, storeVars, pendingTabs, corralRestoredTabs, timers,
                   envCount, closedCount, lastClose, everRestored, obsVars, reaperVars>>

\* getCurrentTabCount(tab.windowId, settings) answers, TAB_COUNT_UPDATED is
\* sent with the count; updateBadge is awaited.
CreatedCount(h) ==
    /\ h.kind = "created" /\ h.pc = "count"
    /\ handlers' = Replace(h,
          [h EXCEPT !.pc = "decide",
                    !.cnt = getCurrentTabCount(h.win, settings),
                    !.raw = Cardinality(RawScope(h.win)),
                    !.selfCounted = h.tab \in currentCounted(h.win, settings),
                    !.sameUrl = h.tab \in DOMAIN tabs /\ tabs[h.tab].url = h.url])
    /\ UNCHANGED <<hostVars, storeVars, memVars, timers, histVars, obsNotBcast, reaperVars>>
    /\ Noted(TRUE, getCurrentTabCount(h.win, settings))

createdOutcomeMutant(h) ==
    IF h.cnt < settings.maxTabs THEN "keep"
    ELSE IF settings.allowlistEnabled
         THEN IF isRealUrl(h.url)
              THEN IF isUrlAllowed(h.url, settings.allowlist) THEN "keep" ELSE "close"
              ELSE "pend"
         ELSE "close"

createdOutcomeLax(h) ==
    IF h.cnt <= settings.maxTabs + 1 THEN "keep"
    ELSE IF settings.allowlistEnabled
         THEN IF isRealUrl(h.url)
              THEN IF isUrlAllowed(h.url, settings.allowlist) THEN "keep" ELSE "close"
              ELSE "pend"
         ELSE "close"

createdOutcomeNoAllowlist(h) ==
    IF h.cnt <= settings.maxTabs THEN "keep"
    ELSE IF settings.allowlistEnabled /\ ~isRealUrl(h.url) THEN "pend"
    ELSE "close"

\* The branches of handleTabCreated after the count.
createdOutcome(h) ==
    IF h.cnt <= settings.maxTabs THEN "keep"
    ELSE IF settings.allowlistEnabled
         THEN IF isRealUrl(h.url)
              THEN IF isUrlAllowed(h.url, settings.allowlist) THEN "keep" ELSE "close"
              ELSE "pend"
         ELSE "close"

pendingTimerMutant(t) == {}

\* setTimeout(() => checkPendingTab(tab.id), PENDING_TIMEOUT + 50)
pendingTimer(t) == {[kind |-> "pending", tab |-> t]}

CreatedDecide(h) ==
    /\ h.kind = "created" /\ h.pc = "decide"
    /\ LET out == createdOutcome(h)
       IN  /\ lastCreated' = Created(h, FALSE, out = "close")
           /\ handlers' = IF out = "close" THEN Replace(h, BeginClose(h))
                          ELSE handlers \ {h}
           /\ pendingTabs' = IF out = "close" THEN pendingTabs \ {closeTarget(h)}
                             ELSE IF out = "pend" THEN pendingTabs \cup {h.tab}
                             ELSE pendingTabs
           /\ allowlistTabs' = IF out = "close" THEN allowlistTabs \ {closeTarget(h)}
                               ELSE allowlistTabs
           /\ timers' = IF out = "pend" THEN timers \cup pendingTimer(h.tab)
                        ELSE timers
    /\ UNCHANGED <<hostVars, storeVars, corralRestoredTabs,
                   envCount, closedCount, lastClose, everRestored, obsVars, reaperVars>>

\* ---- handleTabUpdated ---------------------------------------------------

updatedCaseMutant(h) ==
    IF ~settings.allowlistEnabled THEN "off"
    ELSE IF h.tab \in pendingTabs
         THEN IF isUrlAllowed(h.url, settings.allowlist) THEN "pendingAllowed"
              ELSE "pendingOther"
         ELSE "none"

updatedCase(h) ==
    IF ~settings.enabled \/ ~settings.allowlistEnabled THEN "off"
    ELSE LET isNowAllowlisted == isUrlAllowed(h.url, settings.allowlist)
             wasAllowlisted == h.tab \in allowlistTabs
         IN  IF h.tab \in pendingTabs
             THEN IF isNowAllowlisted THEN "pendingAllowed" ELSE "pendingOther"
             ELSE IF isNowAllowlisted /\ ~wasAllowlisted THEN "entered"
             ELSE IF ~isNowAllowlisted /\ wasAllowlisted THEN "left"
             ELSE "none"

\* getSettings() answers: the three cases, up to the next await.
UpdatedStart(h) ==
    /\ h.kind = "updated" /\ h.pc = "start"
    /\ LET c == updatedCase(h)
       IN  /\ pendingTabs' = IF c \in {"pendingAllowed", "pendingOther"}
                             THEN pendingTabs \ {h.tab} ELSE pendingTabs
           /\ allowlistTabs' = IF c \in {"pendingAllowed", "entered"}
                               THEN allowlistTabs \cup {h.tab}
                               ELSE IF c = "left" THEN allowlistTabs \ {h.tab}
                               ELSE allowlistTabs
           /\ handlers' = IF c \in {"pendingOther", "left"}
                          THEN Replace(h, [h EXCEPT !.pc = "count", !.cse = c,
                                                    !.was = h.tab \in allowlistTabs])
                          ELSE IF c = "entered"
                          THEN (handlers \ {h}) \cup Calls({BroadcastCall})
                          ELSE handlers \ {h}
    /\ UNCHANGED <<hostVars, storeVars, corralRestoredTabs, timers, histVars, obsVars, reaperVars>>

\* handleTabUpdated and checkPendingTab: getCurrentTabCount answers, the tab
\* is closed when the count is over the limit; Case 3 broadcasts otherwise.
CountThenClose(h) ==
    /\ h.kind \in {"updated", "pending"} /\ h.pc = "count"
    /\ LET tabCount == getCurrentTabCount(h.win, settings)
           h2 == [h EXCEPT !.cnt = tabCount]
       IN  IF tabCount > settings.maxTabs
           THEN /\ handlers' = Replace(h, BeginClose(h2))
                /\ pendingTabs' = pendingTabs \ {closeTarget(h2)}
                /\ allowlistTabs' = allowlistTabs \ {closeTarget(h2)}
           ELSE /\ handlers' = IF h.kind = "updated" /\ h.cse = "left"
                               THEN (handlers \ {h}) \cup Calls({BroadcastCall})
                               ELSE handlers \ {h}
                /\ UNCHANGED <<pendingTabs, allowlistTabs>>
    /\ UNCHANGED <<hostVars, storeVars, corralRestoredTabs, timers, histVars, obsVars, reaperVars>>

\* ---- checkPendingTab ----------------------------------------------------

\* The timer set by handleTabCreated fires PENDING_TIMEOUT + 50 ms after the
\* tab was set pending, so the timestamp test passes whenever the entry is
\* still there.
PendingTimerFires(t) ==
    /\ [kind |-> "pending", tab |-> t] \in timers
    /\ timers' = timers \ {[kind |-> "pending", tab |-> t]}
    /\ IF t \in pendingTabs
       THEN /\ pendingTabs' = pendingTabs \ {t}
            /\ handlers' = handlers \cup {Handler("pending", t, "start", NoUrl, 0)}
       ELSE UNCHANGED <<pendingTabs, handlers>>
    /\ UNCHANGED <<hostVars, storeVars, allowlistTabs, corralRestoredTabs,
                   histVars, obsVars, reaperVars>>

\* getSettings() answers
PendingStart(h) ==
    /\ h.kind = "pending" /\ h.pc = "start"
    /\ handlers' = IF settings.enabled /\ settings.allowlistEnabled
                   THEN Replace(h, [h EXCEPT !.pc = "get"])
                   ELSE handlers \ {h}
    /\ UNCHANGED <<hostVars, storeVars, memVars, timers, histVars, obsVars, reaperVars>>

\* browser.tabs.get(tabId) answers, or rejects for a tab that is gone
PendingGet(h) ==
    /\ h.kind = "pending" /\ h.pc = "get"
    /\ IF h.tab \notin DOMAIN tabs
       THEN /\ handlers' = handlers \ {h}
            /\ UNCHANGED allowlistTabs
       ELSE LET tab == tabs[h.tab]
            IN  IF isRealUrl(tab.url) /\ isUrlAllowed(tab.url, settings.allowlist)
                THEN /\ allowlistTabs' = allowlistTabs \cup {h.tab}
                     /\ handlers' = handlers \ {h}
                ELSE /\ handlers' = Replace(h, [h EXCEPT !.pc = "count",
                                                         !.url = tab.url,
                                                         !.win = tab.windowId])
                     /\ UNCHANGED allowlistTabs
    /\ UNCHANGED <<hostVars, storeVars, pendingTabs, corralRestoredTabs, timers,
                   histVars, obsVars, reaperVars>>

\* ---- restoreFromCorral --------------------------------------------------

CorralEntry(u, at) == [url |-> u, closedAt |-> at]

\* onMessage RESTORE_FROM_CORRAL with message.index = i (from 0)
RestoreMessage(i) ==
    /\ ~everRestored /\ RestoresInFlight = {}
    /\ nextTabId <= MaxTabId
    /\ handlers' = handlers \cup {[Handler("restore", 0, "get", NoUrl, 0) EXCEPT !.idx = i]}
    /\ UNCHANGED <<hostVars, storeVars, memVars, timers, histVars, obsVars, reaperVars>>

\* storage.get("tabCorral") answers: the index check and the splice
RestoreGet(h) ==
    /\ h.kind = "restore" /\ h.pc = "get"
    /\ LET corral == tabCorral
       IN  IF h.idx < 0 \/ h.idx >= Len(corral)
           THEN handlers' = handlers \ {h}
           ELSE handlers' = Replace(h,
                   [h EXCEPT !.pc = "set",
                             !.url = corral[h.idx + 1].url,
                             !.corral = [k \in 1..(Len(corral) - 1) |->
                                            IF k <= h.idx THEN corral[k]
                                            ELSE corral[k + 1]]])
    /\ UNCHANGED <<hostVars, storeVars, memVars, timers, histVars, obsVars, reaperVars>>

\* storage.set({ tabCorral: corral }) runs
RestoreSet(h) ==
    /\ h.kind = "restore" /\ h.pc = "set"
    /\ tabCorral' = h.corral
    /\ handlers' = Replace(h, [h EXCEPT !.pc = "create"])
    /\ UNCHANGED <<hostVars, settings, stats, memVars, timers, histVars, obsVars, reaperVars>>

\* browser.tabs.create({ url: entry.url }) runs in window w: the tab exists
\* and the host has fired onCreated before the promise's continuation runs.
RestoreCreate(h, w) ==
    /\ h.kind = "restore" /\ h.pc = "create"
    /\ nextTabId <= MaxTabId
    /\ tabs' = tabs @@ (nextTabId :> Tab(w, h.url))
    /\ nextTabId' = nextTabId + 1
    /\ handlers' = Replace(h, [h EXCEPT !.pc = "mark", !.tab = nextTabId])
                      \cup {Handler("created", nextTabId, "start", h.url, w)}
    /\ everRestored' = TRUE
    /\ UNCHANGED <<today, storeVars, memVars, timers,
                   envCount, closedCount, lastClose, lastCreated, obsVars, reaperVars>>

\* the continuation: corralRestoredTabs.add(newTab.id) and the 5 s timer
RestoreMark(h) ==
    /\ h.kind = "restore" /\ h.pc = "mark"
    /\ corralRestoredTabs' = corralRestoredTabs \cup {h.tab}
    /\ timers' = timers \cup {[kind |-> "grace", tab |-> h.tab]}
    /\ handlers' = handlers \ {h}
    /\ UNCHANGED <<hostVars, storeVars, pendingTabs, allowlistTabs, histVars, obsVars, reaperVars>>

\* setTimeout(() => corralRestoredTabs.delete(newTab.id), 5000)
GraceTimerFires(t) ==
    /\ [kind |-> "grace", tab |-> t] \in timers
    /\ timers' = timers \ {[kind |-> "grace", tab |-> t]}
    /\ corralRestoredTabs' = corralRestoredTabs \ {t}
    /\ UNCHANGED <<hostVars, storeVars, pendingTabs, allowlistTabs, handlers,
                   histVars, obsVars, reaperVars>>

(***************************************************************************)
(* Inactivity Reaper.  Times are in minutes: limitMs becomes               *)
(* settings.inactiveMinutes, and the 2 s throttle is less than one tick.   *)
(***************************************************************************)

\* allTabs and the candidate lists are kept in the order of the host's
\* answer, here by tab id.
RECURSIVE SeqOfSet(_)
SeqOfSet(S) ==
    IF S = {} THEN <<>>
    ELSE LET m == CHOOSE x \in S : \A y \in S : x <= y
         IN  <<m>> \o SeqOfSet(S \ {m})

RECURSIVE FilterSeq(_, _)
FilterSeq(s, keep) ==
    IF s = <<>> THEN <<>>
    ELSE IF Head(s) \in keep THEN <<Head(s)>> \o FilterSeq(Tail(s), keep)
    ELSE FilterSeq(Tail(s), keep)

SeqRange(s) == {s[i] : i \in 1..Len(s)}

\* tabLastAccessed.get(id), 0 for undefined
lastAccessedOf(stamps, t) == IF t \in DOMAIN stamps THEN stamps[t] ELSE 0

\* tabLastAccessed.set(id, at) for every id of ids
SetStamps(stamps, ids, at) ==
    [t \in (DOMAIN stamps) \cup ids |-> IF t \in ids THEN at ELSE stamps[t]]

\* the sleep/wake recalibration: a timestamp in the future becomes now
recalibrate(stamps, at) == [t \in DOMAIN stamps |-> IF stamps[t] > at THEN at ELSE stamps[t]]

scanCaseMutant(tab, stamp, s, at) ==
    IF tab.active THEN "active"
    ELSE IF isInternalUrl(tab.url) THEN "internal"
    ELSE IF s.protectAudible /\ tab.audible THEN "audible"
    ELSE IF stamp = 0 THEN "unstamped"
    ELSE IF at - stamp >= s.inactiveMinutes THEN "candidate"
    ELSE "fresh"

\* The branch of the scan loop a tab of the snapshot takes.
scanCase(tab, stamp, s, at) ==
    IF tab.active THEN "active"
    ELSE IF isInternalUrl(tab.url) THEN "internal"
    ELSE IF s.protectPinned /\ tab.pinned THEN "pinned"
    ELSE IF s.protectAudible /\ tab.audible THEN "audible"
    ELSE IF /\ s.protectAllowlist /\ s.allowlistEnabled /\ Len(s.allowlist) > 0
            /\ isUrlAllowed(tab.url, s.allowlist) THEN "allowlist"
    ELSE IF stamp = 0 THEN "unstamped"
    ELSE IF at - stamp >= s.inactiveMinutes THEN "candidate"
    ELSE "fresh"

\* tabsToClose.sort((a, b) => b.elapsed - a.elapsed): a stable sort, larger
\* elapsed (smaller timestamp) first.
RECURSIVE insertByElapsed(_, _, _)
insertByElapsed(sorted, t, stamps) ==
    IF sorted = <<>> THEN <<t>>
    ELSE IF stamps[Head(sorted)] <= stamps[t]
         THEN <<Head(sorted)>> \o insertByElapsed(Tail(sorted), t, stamps)
         ELSE <<t>> \o sorted

sortByElapsedMutant(s, stamps) == s

RECURSIVE sortByElapsed(_, _)
sortByElapsed(s, stamps) ==
    IF s = <<>> THEN <<>>
    ELSE insertByElapsed(sortByElapsed(SubSeq(s, 1, Len(s) - 1), stamps), s[Len(s)], stamps)

belowFloorMutant(remaining, minTabs) == remaining < minTabs

belowFloorNever(remaining, minTabs) == FALSE

\* windowRemaining.get(windowId) <= minTabs, the test of the gating loop
belowFloor(remaining, minTabs) == remaining <= minTabs

\* The gating loop over eligibleToClose: the ids accepted (tabsToActuallyClose)
\* and the ids deferred, windowRemaining going down with each acceptance.
RECURSIVE gate(_, _, _, _)
gate(eligible, windowRemaining, minTabs, snap) ==
    IF eligible = <<>> THEN [close |-> <<>>, defer |-> {}]
    ELSE LET id == Head(eligible)
             w == snap[id].windowId
         IN  IF belowFloor(windowRemaining[w], minTabs)
             THEN LET r == gate(Tail(eligible), windowRemaining, minTabs, snap)
                  IN  [close |-> r.close, defer |-> r.defer \cup {id}]
             ELSE LET r == gate(Tail(eligible),
                                [windowRemaining EXCEPT ![w] = @ - 1], minTabs, snap)
                  IN  [close |-> <<id>> \o r.close, defer |-> r.defer]

refreshesActiveMutant(id, debounceTabId) == FALSE

\* if (activatedDebounceTabId !== tab.id), for an active tab
refreshesActive(id, debounceTabId) == debounceTabId # id

deferStampsMutant(stamps, defer, at) == stamps

\* tabLastAccessed.set(id, now) of the gating loop, for the ids it passes over
deferStamps(stamps, defer, at) == SetStamps(stamps, defer, at)

\* The synchronous part of _doInactiveCheck after the tab query answered
\* with snap, at time at, with settings s and timestamps stamps: what it
\* closes and what it leaves in tabLastAccessed.
selectInactive(snap, stamps, s, at, debounceTabId) ==
    LET allTabs == SeqOfSet(DOMAIN snap)
        minTabs == IF s.minTabs > 0 THEN s.minTabs ELSE 0
        case(t) == scanCase(snap[t], lastAccessedOf(stamps, t), s, at)
        refreshed == {t \in DOMAIN snap :
                        \/ case(t) \in {"internal", "pinned", "audible", "allowlist", "unstamped"}
                        \/ case(t) = "active" /\ refreshesActive(t, debounceTabId)}
        candidates == {t \in DOMAIN snap : case(t) = "candidate"}
        tabsToClose == sortByElapsed(FilterSeq(allTabs, candidates), stamps)
        windowTabs == [w \in {snap[t].windowId : t \in DOMAIN snap} |->
                          {t \in DOMAIN snap : snap[t].windowId = w}]
        windowRemaining == [w \in DOMAIN windowTabs |-> Cardinality(windowTabs[w])]
        atFloor == UNION {windowTabs[w] : w \in {x \in DOMAIN windowTabs :
                                                   windowRemaining[x] <= minTabs}}
        eligibleToClose == FilterSeq(tabsToClose,
                              {t \in candidates : windowRemaining[snap[t].windowId] > minTabs})
        g == gate(eligibleToClose, windowRemaining, minTabs, snap)
        stamped == deferStamps(SetStamps(stamps, refreshed \cup atFloor, at), g.defer, at)
    IN  [close |-> g.close,
         defer |-> g.defer,
         tabsToClose |-> tabsToClose,
         stamps |-> [t \in (DOMAIN stamped) \ SeqRange(g.close) |-> stamped[t]],
         minTabs |-> minTabs,
         windowRemaining |-> windowRemaining]

\* ---- addToCorral --------------------------------------------------------

\* corral.findIndex(match) and corral.splice(existingIdx, 1), the matching
\* indices being idx
dropFirst(corral, idx) ==
    IF idx = {} THEN corral
    ELSE LET i == CHOOSE x \in idx : \A y \in idx : x <= y
         IN  SubSeq(corral, 1, i - 1) \o SubSeq(corral, i + 1, Len(corral))

corralInsertMutant(corral, tab, s, at) == <<CorralEntry(tab.url, at)>> \o corral

\* One turn of the loop of addToCorral for a closed tab (every title of
\* the model is "Untitled").
corralInsert(corral, tab, s, at) ==
    LET sameUrl == {i \in 1..Len(corral) : corral[i].url = tab.url}
        sameHost == {i \in 1..Len(corral) :
                        /\ UrlParses(corral[i].url)
                        /\ UrlHostname(corral[i].url) = UrlHostname(tab.url)}
        deduped == IF s.wrangleOption = "exactURLMatch" THEN dropFirst(corral, sameUrl)
                   ELSE IF s.wrangleOption = "hostnameAndTitleMatch" /\ UrlParses(tab.url)
                        THEN dropFirst(corral, sameHost)
                   ELSE corral
    IN  <<CorralEntry(tab.url, at)>> \o deduped

\* const max = settings.corralMax || 100
corralLimit(s) == IF s.corralMax = 0 THEN CORRAL_MAX_FALLBACK ELSE s.corralMax

trimCorralMutant(corral, s) ==
    IF Len(corral) > corralLimit(s) + 1 THEN SubSeq(corral, 1, corralLimit(s) + 1)
    ELSE corral

\* if (corral.length > max) corral.length = max
trimCorral(corral, s) ==
    IF Len(corral) > corralLimit(s) THEN SubSeq(corral, 1, corralLimit(s)) ELSE corral

\* addToCorral(tabs): the list it hands to storage.set, from the list read
RECURSIVE addToCorral(_, _, _, _)
addToCorral(corral, closed, s, at) ==
    IF closed = <<>>
    THEN trimCorral(corral, s)
    ELSE addToCorral(corralInsert(corral, Head(closed), s, at), Tail(closed), s, at)

\* cleanExpiredCorral: the list that is stored when it returns, from the
\* list read (closedAt and now in minutes)
keepsEntryMutant(e, s, at) == at - e.closedAt <= s.corralExpireHours * MinutesPerHour

\* the filter of cleanExpiredCorral: age < expireMs
keepsEntry(e, s, at) == at - e.closedAt < s.corralExpireHours * MinutesPerHour

cleanExpiredCorral(corral, s, at) ==
    IF s.corralExpireHours <= 0 THEN corral
    ELSE FilterSeq(corral, {e \in SeqRange(corral) : keepsEntry(e, s, at)})

\* ---- checkInactiveTabs and _doInactiveCheck ------------------------------

ReaperIdle ==
    [running |-> FALSE, passes |-> 0, lastCheck |-> 0, pc |-> "idle", at |-> 0, pending |-> {},
     closedTabs |-> <<>>, successCount |-> 0, corral |-> <<>>, st |-> DEFAULT_STATS]

NoPass == [ran |-> FALSE]

ReaperAtRest ==
    /\ tabLastAccessed = [t \in {} |-> 0]
    /\ now = 1
    /\ reaper = ReaperIdle
    /\ lastPass = NoPass

reaperOther == <<nextTabId, today, memVars, schedVars, histVars, obsVars>>

\* the finally of checkInactiveTabs: an execution of _doInactiveCheck is over
ReaperDone(r) ==
    [r EXCEPT !.running = FALSE, !.passes = @ - 1, !.pc = "idle", !.pending = {}, !.closedTabs = <<>>,
              !.successCount = 0, !.corral = <<>>, !.st = DEFAULT_STATS]

throttledMutant(force, at, last) == FALSE

\* the throttle: a call that is not forced, less than INACTIVE_CHECK_THROTTLE
\* (2 s, under a minute) after the last pass started
throttled(force, at, last) == ~force /\ at - last < 1

mutexHeldMutant(r) == FALSE

\* if (inactiveCheckRunning) return
mutexHeld(r) == r.running

\* checkInactiveTabs(force): it returns at its throttle or at its mutex, or
\* it takes the mutex, stamps lastInactiveCheck and awaits _doInactiveCheck
\* (passes: the executions of _doInactiveCheck begun and not over).
afterCheckCall(force) ==
    IF throttled(force, now, reaper.lastCheck) \/ mutexHeld(reaper)
    THEN reaper
    ELSE [reaper EXCEPT !.running = TRUE, !.passes = @ + 1,
                        !.lastCheck = now, !.pc = "getSettings"]

checkInactiveTabsCall(force) ==
    /\ reaper' = afterCheckCall(force)
    /\ UNCHANGED <<tabs, storeVars, tabLastAccessed, now, lastPass>>
    /\ UNCHANGED <<nextTabId, today, memVars, schedVars, histVars, obsNotTrigger>>

checkInactiveTabs(force) ==
    /\ checkInactiveTabsCall(force)
    /\ UNCHANGED lastTrigger

\* the same call, with a note of what it met
checkInactiveTabsNoted(force) ==
    /\ checkInactiveTabsCall(force)
    /\ lastTrigger' = [force |-> force,
                       throttled |-> ~force /\ now - reaper.lastCheck < 1,
                       running |-> reaper.running,
                       started |-> reaper'.running /\ ~reaper.running]

\* getSettings() answers: the inactiveEnabled test, const now, the
\* recalibration, up to the await of browser.tabs.query({})
ReaperGetSettings ==
    /\ reaper.pc = "getSettings"
    /\ IF ~settings.inactiveEnabled
       THEN /\ reaper' = ReaperDone(reaper)
            /\ UNCHANGED tabLastAccessed
       ELSE /\ reaper' = [reaper EXCEPT !.pc = "query", !.at = now]
            /\ tabLastAccessed' = recalibrate(tabLastAccessed, now)
    /\ UNCHANGED <<tabs, storeVars, now, lastPass>>
    /\ UNCHANGED reaperOther

\* the query answers: the scan, the sort, the floor, and the removals are
\* issued
ReaperSelect ==
    /\ reaper.pc = "query"
    /\ LET r == selectInactive(tabs, tabLastAccessed, settings, reaper.at, activated.tabId)
       IN  /\ tabLastAccessed' = r.stamps
           /\ lastPass' = [ran |-> TRUE, at |-> reaper.at, snap |-> tabs,
                           before |-> tabLastAccessed, minTabs |-> r.minTabs,
                           tabsToClose |-> r.tabsToClose, close |-> r.close,
                           defer |-> r.defer, after |-> r.stamps,
                           debounce |-> activated.tabId,
                           removed |-> {}, closedBefore |-> stats.inactiveClosed,
                           corralAt |-> 0, done |-> FALSE]
           /\ reaper' = IF r.close = <<>> THEN ReaperDone(reaper)
                        ELSE [reaper EXCEPT
                                !.pc = "remove",
                                !.pending = SeqRange(r.close),
                                !.closedTabs = [i \in 1..Len(r.close) |-> tabs[r.close[i]]]]
    /\ UNCHANGED <<tabs, storeVars, now>>
    /\ UNCHANGED reaperOther

\* browser.tabs.remove(id) of one of the tabs runs: the tab goes (and
\* handleTabRemoved clears its entries) or the call rejects
ReaperRemove(t) ==
    /\ reaper.pc = "remove"
    /\ t \in reaper.pending
    /\ LET ok == t \in DOMAIN tabs
           left == reaper.pending \ {t}
       IN  /\ tabs' = IF ok THEN RemoveTabFrom(tabs, t) ELSE tabs
           /\ tabLastAccessed' = IF ok THEN RemoveTabFrom(tabLastAccessed, t)
                                 ELSE tabLastAccessed
           /\ pendingTabs' = IF ok THEN pendingTabs \ {t} ELSE pendingTabs
           /\ allowlistTabs' = IF ok THEN allowlistTabs \ {t} ELSE allowlistTabs
           /\ reaper' = [reaper EXCEPT
                           !.pending = left,
                           !.successCount = IF ok THEN @ + 1 ELSE @,
                           !.pc = IF left = {} THEN "corralGet" ELSE "remove"]
           /\ persist' = IF ok THEN persistTabActivity(persist) ELSE persist
           /\ lastPass' = IF ok THEN [lastPass EXCEPT !.removed = @ \cup {t}] ELSE lastPass
    /\ UNCHANGED <<storeVars, now>>
    /\ UNCHANGED <<nextTabId, today, corralRestoredTabs, schedVars, histVars, obsNotPersist>>

\* addToCorral(closedTabs): settings and the stored list are read
ReaperCorralGet ==
    /\ reaper.pc = "corralGet"
    /\ reaper' = [reaper EXCEPT
                    !.pc = "corralSet",
                    !.corral = addToCorral(tabCorral, reaper.closedTabs, settings, now)]
    /\ lastPass' = [lastPass EXCEPT !.corralAt = now]
    /\ UNCHANGED <<tabs, storeVars, tabLastAccessed, now>>
    /\ UNCHANGED reaperOther

\* addToCorral: storage.set({ tabCorral: corral }) runs
ReaperCorralSet ==
    /\ reaper.pc = "corralSet"
    /\ tabCorral' = reaper.corral
    /\ reaper' = [reaper EXCEPT !.pc = "statsGet"]
    /\ UNCHANGED <<tabs, settings, stats, tabLastAccessed, now, lastPass>>
    /\ UNCHANGED reaperOther

\* incrementInactiveClosed(successCount): the stats are read
ReaperStatsGet ==
    /\ reaper.pc = "statsGet"
    /\ reaper' = [reaper EXCEPT
                    !.pc = "statsSet",
                    !.st = incrementInactiveClosed(stats, today, reaper.successCount)]
    /\ UNCHANGED <<tabs, storeVars, tabLastAccessed, now, lastPass>>
    /\ UNCHANGED reaperOther

\* incrementInactiveClosed: the stats are saved; persistTabActivityNow()
\* sends the map, and the pass ends when that write has answered
ReaperStatsSet ==
    /\ reaper.pc = "statsSet"
    /\ stats' = reaper.st
    /\ persist' = persistTabActivityNow(persist, tabLastAccessed, "reaper")
    /\ reaper' = IF persist.on THEN [reaper EXCEPT !.pc = "persist"]
                 ELSE ReaperDone(reaper)
    /\ lastPass' = [lastPass EXCEPT !.done = TRUE]
    /\ UNCHANGED <<tabs, settings, tabCorral, tabLastAccessed, now>>
    /\ UNCHANGED <<nextTabId, today, memVars, schedVars, histVars, obsNotPersist>>

\* a minute passes
Tick ==
    /\ now < MaxNow
    /\ now' = now + 1
    /\ UNCHANGED <<tabs, storeVars, tabLastAccessed, reaper, lastPass>>
    /\ UNCHANGED reaperOther

(***************************************************************************)
(* The enforcement specifications.  Both start from one or two open tabs   *)
(* within the limit, one corral entry, and nothing in flight.              *)
(***************************************************************************)

\* every scope is within the limit
WithinLimit(tb, s) ==
    \A w \in Windows :
        Cardinality({t \in DOMAIN tb : s.globalLimit \/ tb[t].windowId = w}) <= s.maxTabs

EnforcementInit ==
    /\ \E w \in Windows :
          \/ tabs = (1 :> Tab(1, UrlB))
          \/ tabs = (1 :> Tab(1, UrlB) @@ 2 :> Tab(w, UrlB))
    /\ WithinLimit(tabs, settings)
    /\ nextTabId = Cardinality(DOMAIN tabs) + 1
    /\ today = 8
    /\ stats = getStats(DEFAULT_STATS, today)
    /\ tabCorral = <<CorralEntry(UrlA, 1)>>
    /\ pendingTabs = {} /\ allowlistTabs = {} /\ corralRestoredTabs = {}
    /\ handlers = {} /\ timers = {}
    /\ envCount = NoEnv /\ closedCount = 0 /\ lastClose = NoClose
    /\ lastCreated = NoCreated /\ everRestored = FALSE
    /\ lastQuery = NoQuery /\ ObsAtRest
    /\ ReaperAtRest

\* Specification Spec: allowlisting disabled (the allowlist itself is not
\* empty), the extension enabled or not.
Init ==
    /\ \E en \in BOOLEAN, g \in BOOLEAN, m \in 1..MaxLimit :
          settings = [DEFAULT_SETTINGS EXCEPT
                        !.enabled = en, !.globalLimit = g, !.maxTabs = m,
                        !.allowlistEnabled = FALSE,
                        !.allowlist = << <<"a">> >>]
    /\ EnforcementInit

\* With allowlisting disabled no tab is ever set pending and handleTabUpdated
\* returns after reading the settings, so checkPendingTab and the count of
\* handleTabUpdated have no step here.
Next ==
    \/ \E w \in Windows : CreateTab(w, UrlA)
    \/ \E t \in TabIds, u \in {AboutBlank, UrlB} : Navigate(t, u)
    \/ \E t \in TabIds : UserRemoveTab(t)
    \/ \E t \in TabIds, w \in Windows : AttachTab(t, w)
    \/ \E h \in handlers : CloseRemove(h)
    \/ \E h \in handlers : CloseGetStats(h)
    \/ \E h \in handlers : CloseSaveStats(h)
    \/ \E h \in handlers : CreatedStart(h)
    \/ \E h \in handlers : CreatedCount(h)
    \/ \E h \in handlers : CreatedDecide(h)
    \/ \E h \in handlers : UpdatedStart(h)
    \/ \E i \in {0, 1} : RestoreMessage(i)
    \/ \E h \in handlers : RestoreGet(h)
    \/ \E h \in handlers : RestoreSet(h)
    \/ \E h \in handlers, w \in Windows : RestoreCreate(h, w)
    \/ \E h \in handlers : RestoreMark(h)
    \/ \E t \in TabIds : GraceTimerFires(t)

Spec == Init /\ [][Next]_vars

\* Specification SpecAllow: the extension and allowlisting enabled, the
\* allowlist holding the domain "a"; tabs open with no URL yet, on the
\* allowlisted page or on another page.
InitAllow ==
    /\ \E g \in BOOLEAN, m \in 1..MaxLimit :
          settings = [DEFAULT_SETTINGS EXCEPT
                        !.enabled = TRUE, !.globalLimit = g, !.maxTabs = m,
                        !.allowlistEnabled = TRUE,
                        !.allowlist = << <<"a">> >>]
    /\ EnforcementInit

NextAllow ==
    \/ \E w \in Windows, u \in {NoUrl, UrlA, UrlB} : CreateTab(w, u)
    \/ \E t \in TabIds, u \in {UrlA, UrlB} : Navigate(t, u)
    \/ \E t \in TabIds : UserRemoveTab(t)
    \/ \E t \in TabIds, w \in Windows : AttachTab(t, w)
    \/ \E h \in handlers : CloseRemove(h)
    \/ \E h \in handlers : CloseGetStats(h)
    \/ \E h \in handlers : CloseSaveStats(h)
    \/ \E h \in handlers : CreatedStart(h)
    \/ \E h \in handlers : CreatedCount(h)
    \/ \E h \in handlers : CreatedDecide(h)
    \/ \E h \in handlers : UpdatedStart(h)
    \/ \E h \in handlers : CountThenClose(h)
    \/ \E t \in TabIds : PendingTimerFires(t)
    \/ \E h \in handlers : PendingStart(h)
    \/ \E h \in handlers : PendingGet(h)
    \/ \E i \in {0, 1} : RestoreMessage(i)
    \/ \E h \in handlers : RestoreGet(h)
    \/ \E h \in handlers : RestoreSet(h)
    \/ \E h \in handlers, w \in Windows : RestoreCreate(h, w)
    \/ \E h \in handlers : RestoreMark(h)
    \/ \E t \in TabIds : GraceTimerFires(t)

SpecAllow == InitAllow /\ [][NextAllow]_vars

(***************************************************************************)
(* Specification SpecReaper: passes of the Inactivity Reaper over windows  *)
(* of idle, fresh and protected tabs, while time passes and the user may   *)
(* close a tab.                                                            *)
(***************************************************************************)
Profiles == {"plain", "pinned", "audible", "internal", "allowed"}

ReaperTab(w, profile, isActive) ==
    [windowId |-> w,
     url |-> IF profile = "internal" THEN AboutBlank
             ELSE IF profile = "allowed" THEN UrlA ELSE UrlB,
     active |-> isActive,
     pinned |-> profile = "pinned",
     audible |-> profile = "audible"]

\* Each window that has tabs has exactly one active tab; the other tabs were
\* last used at drawn times (0: no entry), at most one of them is pinned,
\* audible, an internal page or on the allowlist.
ReaperInit ==
    /\ \E win \in [TabIds -> Windows], act \in SUBSET TabIds,
          prof \in [TabIds -> Profiles], st \in [TabIds -> 0..MaxStamp] :
          /\ win[1] = 1
          /\ \A w \in {win[t] : t \in TabIds} :
                Cardinality({t \in act : win[t] = w}) = 1
          /\ \A t \in act : prof[t] = "plain" /\ st[t] = 0
          /\ Cardinality({t \in TabIds : prof[t] # "plain"}) <= 1
          /\ tabs = [t \in TabIds |-> ReaperTab(win[t], prof[t], t \in act)]
          /\ tabLastAccessed = [t \in {x \in TabIds : st[x] # 0} |-> st[t]]
          /\ allowlistTabs = {t \in TabIds : prof[t] = "allowed"}
    /\ \E ie \in BOOLEAN, mt \in 0..MaxMinTabs, p \in BOOLEAN :
          settings = [DEFAULT_SETTINGS EXCEPT
                        !.allowlistEnabled = TRUE, !.allowlist = << <<"a">> >>,
                        !.inactiveEnabled = ie, !.inactiveMinutes = InactiveMinutes, !.minTabs = mt,
                        !.protectPinned = p, !.protectAudible = p, !.protectAllowlist = p]
    /\ now = MaxStamp + 1
    /\ reaper = ReaperIdle
    /\ lastPass = NoPass
    /\ nextTabId = MaxTabId + 1
    /\ today = 8
    /\ stats = getStats(DEFAULT_STATS, today)
    /\ tabCorral = <<CorralEntry(UrlB, 1)>>
    /\ pendingTabs = {} /\ corralRestoredTabs = {}
    /\ handlers = {} /\ timers = {}
    /\ envCount = NoEnv /\ closedCount = 0 /\ lastClose = NoClose
    /\ lastCreated = NoCreated /\ everRestored = FALSE
    /\ lastQuery = NoQuery /\ ObsAtRest

ReaperNext ==
    \/ \E force \in BOOLEAN : checkInactiveTabs(force)
    \/ ReaperGetSettings
    \/ ReaperSelect
    \/ \E t \in TabIds : ReaperRemove(t)
    \/ ReaperCorralGet
    \/ ReaperCorralSet
    \/ ReaperStatsGet
    \/ ReaperStatsSet
    \/ Tick
    \/ \E t \in TabIds : UserRemoveTab(t)

SpecReaper == ReaperInit /\ [][ReaperNext]_vars


(***************************************************************************)
(* Specification SpecPending: tabs that open with no URL while the scope   *)
(* is over the limit, their timeout check, a navigation or a close by the  *)
(* user, and the popup's main toggle.  SpecPendingFair adds that a timer   *)
(* that is set does fire.                                                  *)
(***************************************************************************)

\* SAVE_SETTINGS from the popup's main toggle
SaveEnabled ==
    /\ settings' = [settings EXCEPT !.enabled = ~settings.enabled]
    /\ UNCHANGED <<hostVars, stats, tabCorral, memVars, schedVars, histVars,
                   obsVars, reaperVars>>

PendingNext ==
    \/ \E u \in {NoUrl, UrlB} : CreateTab(1, u)
    \/ \E t \in TabIds, u \in {UrlA, UrlB} : Navigate(t, u)
    \/ \E t \in TabIds : UserRemoveTab(t)
    \/ SaveEnabled
    \/ \E h \in handlers : CloseRemove(h)
    \/ \E h \in handlers : CloseGetStats(h)
    \/ \E h \in handlers : CloseSaveStats(h)
    \/ \E h \in handlers : CreatedStart(h)
    \/ \E h \in handlers : CreatedCount(h)
    \/ \E h \in handlers : CreatedDecide(h)
    \/ \E h \in handlers : UpdatedStart(h)
    \/ \E h \in handlers : CountThenClose(h)
    \/ \E t \in TabIds : PendingTimerFires(t)
    \/ \E h \in handlers : PendingStart(h)
    \/ \E h \in handlers : PendingGet(h)

SpecPending == InitAllow /\ [][PendingNext]_vars

\* setTimeout runs its callback once the delay has passed
SpecPendingFair ==
    SpecPending /\ \A t \in TabIds : WF_vars(PendingTimerFires(t))

(***************************************************************************)
(* Specification SpecUpdate: navigation with allowlisting enabled.  Tabs   *)
(* open with no URL yet or on a page that is not allowlisted, and tabs     *)
(* navigate up to MaxNav times between the allowlisted page and the other. *)
(***************************************************************************)
NextUpdate ==
    \/ \E u \in {NoUrl, UrlB} : CreateTab(1, u)
    \/ \E t \in TabIds, u \in {UrlA, UrlB} : NavigateWithin(t, u, MaxNav)
    \/ \E h \in handlers : CloseRemove(h)
    \/ \E h \in handlers : CloseGetStats(h)
    \/ \E h \in handlers : CloseSaveStats(h)
    \/ \E h \in handlers : CreatedStart(h)
    \/ \E h \in handlers : CreatedCount(h)
    \/ \E h \in handlers : CreatedDecide(h)
    \/ \E h \in handlers : UpdatedStart(h)
    \/ \E h \in handlers : CountThenClose(h)
    \/ \E t \in TabIds : PendingTimerFires(t)
    \/ \E h \in handlers : PendingStart(h)
    \/ \E h \in handlers : PendingGet(h)

SpecUpdate == InitAllow /\ [][NextUpdate]_vars

(***************************************************************************)
(* Specification SpecThrottle: calls of checkInactiveTabs from the alarm   *)
(* (forced) and from the tab and window events (not forced), noted, over   *)
(* windows of plain tabs with the Reaper enabled and no floor.             *)
(***************************************************************************)
ThrottleInit ==
    /\ ReaperInit
    /\ settings.inactiveEnabled
    /\ settings.minTabs = 0
    /\ settings.protectPinned
    /\ \A t \in DOMAIN tabs : tabs[t].url = UrlB /\ ~tabs[t].pinned /\ ~tabs[t].audible

ThrottleNext ==
    \/ \E force \in BOOLEAN : checkInactiveTabsNoted(force)
    \/ ReaperGetSettings
    \/ ReaperSelect
    \/ \E t \in TabIds : ReaperRemove(t)
    \/ ReaperCorralGet
    \/ ReaperCorralSet
    \/ ReaperStatsGet
    \/ ReaperStatsSet
    \/ Tick

SpecThrottle == ThrottleInit /\ [][ThrottleNext]_vars
(***************************************************************************)
(* Specification SpecCount: the Accountant over tabs of arbitrary host     *)
(* names and an allowlist entry typed into the popup.                      *)
(***************************************************************************)

countOther == <<nextTabId, today, stats, tabCorral, memVars, schedVars, histVars, reaperVars>>

\* The rest of the extension at rest: nothing in flight, nothing recorded.
EnforcementIdle ==
    /\ nextTabId = 3
    /\ today = 8
    /\ stats = DEFAULT_STATS
    /\ tabCorral = <<>>
    /\ pendingTabs = {} /\ allowlistTabs = {} /\ corralRestoredTabs = {}
    /\ handlers = {} /\ timers = {}
    /\ envCount = NoEnv /\ closedCount = 0 /\ lastClose = NoClose
    /\ lastCreated = NoCreated /\ everRestored = FALSE
    /\ ReaperAtRest

CountInit ==
    /\ \E h \in {x \in PieceStrings(MaxHostPieces) : ValidHost(x)} :
          tabs = (1 :> [Tab(1, Https(h)) EXCEPT !.active = TRUE]
                    @@ 2 :> [Tab(2, Https(<<"a">>)) EXCEPT !.active = TRUE])
    /\ \E raw \in PieceStrings(MaxEntryPieces), ae \in BOOLEAN, g \in BOOLEAN :
          \* popup addDomain: sanitizeDomain, an empty result is not added
          settings = [DEFAULT_SETTINGS EXCEPT
                        !.allowlist = IF sanitizeDomain(raw) = <<>> THEN <<>>
                                      ELSE <<sanitizeDomain(raw)>>,
                        !.allowlistEnabled = ae,
                        !.globalLimit = g]
    /\ lastQuery = NoQuery /\ ObsAtRest
    /\ EnforcementIdle

\* onMessage GET_TAB_COUNT, the active tab of the current window being in
\* window w
GetTabCount(w) ==
    /\ \E t \in DOMAIN tabs : tabs[t].active /\ tabs[t].windowId = w
    /\ lastQuery' = [asked |-> TRUE, windowId |-> w,
                     allowlistEnabled |-> settings.allowlistEnabled,
                     globalLimit |-> settings.globalLimit,
                     counted |-> currentCounted(w, settings),
                     count |-> getCurrentTabCount(w, settings),
                     prevExcluded |-> IF lastQuery.asked
                                      THEN lastQuery.scope \ lastQuery.counted ELSE {},
                     scope |-> IF settings.globalLimit THEN queryAll ELSE queryWindow(w)]
    /\ UNCHANGED <<tabs, settings, obsNotQuery>>
    /\ UNCHANGED countOther

\* popup allowlist toggle, saved with SAVE_SETTINGS
SaveAllowlistEnabled ==
    /\ settings' = [settings EXCEPT !.allowlistEnabled = ~settings.allowlistEnabled]
    /\ UNCHANGED <<tabs, obsVars>>
    /\ UNCHANGED countOther

\* popup global toggle, saved with SAVE_SETTINGS
SaveGlobalLimit ==
    /\ settings' = [settings EXCEPT !.globalLimit = ~settings.globalLimit]
    /\ UNCHANGED <<tabs, obsVars>>
    /\ UNCHANGED countOther

CountNext ==
    \/ \E w \in Windows : GetTabCount(w)
    \/ SaveAllowlistEnabled
    \/ SaveGlobalLimit

SpecCount == CountInit /\ [][CountNext]_vars


(***************************************************************************)
(* Specification SpecCorral: the corral under addToCorral (as the Reaper   *)
(* calls it, with one or two closed tabs), restoreFromCorral,              *)
(* cleanExpiredCorral and clearCorral, for drawn corralMax, dedup mode and *)
(* expiry, while hours pass and the settings are saved anew.  lastCorralOp *)
(* is the addToCorral or cleanExpiredCorral call that has just returned.   *)
(***************************************************************************)
WrangleOptions == {"exactURLMatch", "hostnameAndTitleMatch", "withDupes"}

corralOther == <<tabs, nextTabId, today, stats, memVars, schedVars, histVars,
                 obsNotCorral, tabLastAccessed, reaper, lastPass>>

CorralInit ==
    /\ tabs = (1 :> Tab(1, UrlB))
    /\ \E cm \in 0..MaxCorralMax, wo \in WrangleOptions, h \in 0..MaxExpireHours :
          settings = [DEFAULT_SETTINGS EXCEPT
                        !.enabled = FALSE, !.corralMax = cm,
                        !.wrangleOption = wo, !.corralExpireHours = h]
    /\ nextTabId = 2
    /\ today = 8
    /\ stats = DEFAULT_STATS
    /\ tabCorral = <<>>
    /\ pendingTabs = {} /\ allowlistTabs = {} /\ corralRestoredTabs = {}
    /\ handlers = {} /\ timers = {}
    /\ envCount = NoEnv /\ closedCount = 0 /\ lastClose = NoClose
    /\ lastCreated = NoCreated /\ everRestored = FALSE
    /\ lastQuery = NoQuery /\ ObsAtRest
    /\ ReaperAtRest

\* the tabs a pass of the Reaper has closed
ClosedLists ==
    {<<Tab(1, u)>> : u \in {UrlA, UrlB}}
        \cup {<<Tab(1, u), Tab(1, v)>> : u \in {UrlA, UrlB}, v \in {UrlA, UrlB}}

\* The operations on the corral run one after the other here: none starts
\* while restoreFromCorral or the handler of the tab it opened is in flight.
OneAtATime == handlers = {}

\* addToCorral(closed), from its read of the list to its write
AddToCorral(closed) ==
    /\ OneAtATime
    /\ Len(tabCorral) + Len(closed) <= MaxCorralLen
    /\ tabCorral' = addToCorral(tabCorral, closed, settings, now)
    /\ lastCorralOp' = [op |-> "add", before |-> tabCorral, closed |-> closed,
                        after |-> addToCorral(tabCorral, closed, settings, now),
                        s |-> settings, at |-> now]
    /\ UNCHANGED <<settings, now>>
    /\ UNCHANGED corralOther

\* cleanExpiredCorral(), from its read of the list to its write
CleanExpiredCorral ==
    /\ OneAtATime
    /\ tabCorral' = cleanExpiredCorral(tabCorral, settings, now)
    /\ lastCorralOp' = [op |-> "clean", before |-> tabCorral,
                        after |-> cleanExpiredCorral(tabCorral, settings, now),
                        s |-> settings, at |-> now]
    /\ UNCHANGED <<settings, now>>
    /\ UNCHANGED corralOther

\* clearCorral(): storage.remove("tabCorral"); a later read gives []
ClearCorral ==
    /\ OneAtATime
    /\ tabCorral' = <<>>
    /\ lastCorralOp' = NoCorralOp
    /\ UNCHANGED <<settings, now>>
    /\ UNCHANGED corralOther

\* SAVE_SETTINGS with another dedup mode
SaveWrangleOption(wo) ==
    /\ OneAtATime
    /\ settings.wrangleOption # wo
    /\ settings' = [settings EXCEPT !.wrangleOption = wo]
    /\ lastCorralOp' = NoCorralOp
    /\ UNCHANGED <<tabCorral, now>>
    /\ UNCHANGED corralOther

\* SAVE_SETTINGS with another corralMax
SaveCorralMax(cm) ==
    /\ OneAtATime
    /\ settings.corralMax # cm
    /\ settings' = [settings EXCEPT !.corralMax = cm]
    /\ lastCorralOp' = NoCorralOp
    /\ UNCHANGED <<tabCorral, now>>
    /\ UNCHANGED corralOther

\* an hour passes
HourPasses ==
    /\ OneAtATime
    /\ now + MinutesPerHour <= MaxHours * MinutesPerHour + 1
    /\ now' = now + MinutesPerHour
    /\ lastCorralOp' = NoCorralOp
    /\ UNCHANGED <<tabCorral, settings>>
    /\ UNCHANGED corralOther

CorralNext ==
    \/ \E closed \in ClosedLists : AddToCorral(closed)
    \/ CleanExpiredCorral
    \/ ClearCorral
    \/ \E wo \in WrangleOptions : SaveWrangleOption(wo)
    \/ \E cm \in 0..MaxCorralMax : SaveCorralMax(cm)
    \/ HourPasses
    \/ \E i \in {0, 1} : RestoreMessage(i)
    \/ \E h \in handlers : RestoreGet(h)
    \/ \E h \in handlers : RestoreSet(h)
    \/ \E h \in handlers : RestoreCreate(h, 1)
    \/ \E h \in handlers : RestoreMark(h)
    \/ \E t \in TabIds : GraceTimerFires(t)
    \/ \E h \in handlers : CreatedStart(h)

SpecCorral == CorralInit /\ [][CorralNext]_vars
(***************************************************************************)
(* The count messages.  One window whose first tab is the active one; the  *)
(* user opens tabs, loads pages and closes tabs; the periodicCheck alarm   *)
(* fires every minute.                                                     *)
(***************************************************************************)
BroadcastInit ==
    /\ tabs = (1 :> [Tab(1, UrlB) EXCEPT !.active = TRUE])
    /\ nextTabId = 2
    /\ today = 8
    /\ \E en \in BOOLEAN, m \in 1..MaxLimit :
          settings = [DEFAULT_SETTINGS EXCEPT
                        !.enabled = en, !.maxTabs = m,
                        !.allowlistEnabled = TRUE,
                        !.allowlist = << <<"a">> >>]
    /\ stats = getStats(DEFAULT_STATS, today)
    /\ tabCorral = <<>>
    /\ pendingTabs = {} /\ allowlistTabs = {} /\ corralRestoredTabs = {}
    /\ handlers = {} /\ timers = {}
    /\ envCount = NoEnv /\ closedCount = 0 /\ lastClose = NoClose
    /\ lastCreated = NoCreated /\ everRestored = FALSE
    /\ lastQuery = NoQuery /\ lastTrigger = NoTrigger /\ lastCorralOp = NoCorralOp
    /\ bcast = [NoBcast EXCEPT !.on = TRUE]
    /\ calls = NoCalls /\ MoreAtRest
    /\ ReaperAtRest

\* setTimeout(..., 100) of handleTabRemoved fires: broadcastTabCount is called
BroadcastTimerFires ==
    /\ BroadcastTimer \in timers
    /\ timers' = timers \ {BroadcastTimer}
    /\ handlers' = handlers \cup {BroadcastCall}
    /\ UNCHANGED <<hostVars, storeVars, memVars, histVars, obsVars, reaperVars>>

\* The periodicCheck alarm fires (period one minute) unless its last run is
\* still going.
PeriodicAlarm ==
    /\ ~\E h \in handlers : h.kind = "periodic"
    /\ handlers' = handlers \cup {Handler("periodic", 0, "start", NoUrl, 0)}
    /\ UNCHANGED <<hostVars, storeVars, memVars, timers, histVars, obsVars, reaperVars>>

periodicSkipsMutant(s) == TRUE

\* if (!settings.enabled) return;
periodicSkips(s) == ~s.enabled

\* broadcastTabCount and periodicCheck: getSettings() answers; periodicCheck
\* returns when the extension is disabled.
CountStart(h) ==
    /\ h.kind \in {"broadcast", "periodic"} /\ h.pc = "start"
    /\ handlers' = IF h.kind = "periodic" /\ periodicSkips(settings)
                   THEN handlers \ {h}
                   ELSE Replace(h, [h EXCEPT !.pc = "query"])
    /\ UNCHANGED <<hostVars, storeVars, memVars, timers, histVars, obsVars, reaperVars>>

\* tabs.query({active: true, currentWindow: true}) answers
CountQuery(h) ==
    /\ h.kind \in {"broadcast", "periodic"} /\ h.pc = "query"
    /\ IF activeTabs = {}
       THEN handlers' = handlers \ {h}
       ELSE \E a \in activeTabs :
                handlers' = Replace(h, [h EXCEPT !.pc = "count", !.win = tabs[a].windowId])
    /\ UNCHANGED <<hostVars, storeVars, memVars, timers, histVars, obsVars, reaperVars>>

\* getCurrentTabCount(activeTab.windowId, settings) answers and the message
\* is sent; updateBadge is awaited.
CountSend(h) ==
    /\ h.kind \in {"broadcast", "periodic"} /\ h.pc = "count"
    /\ handlers' = handlers \ {h}
    /\ UNCHANGED <<hostVars, storeVars, memVars, timers, histVars, obsNotBcast, reaperVars>>
    /\ Noted(TRUE, getCurrentTabCount(h.win, settings))

BroadcastWork ==
    \/ \E h \in handlers :
          \/ CreatedStart(h) \/ CreatedCount(h) \/ CreatedDecide(h)
          \/ CloseRemove(h) \/ CloseGetStats(h) \/ CloseSaveStats(h)
          \/ UpdatedStart(h) \/ CountThenClose(h)
          \/ PendingStart(h) \/ PendingGet(h)
          \/ CountStart(h) \/ CountQuery(h) \/ CountSend(h)
    \/ \E t \in TabIds : PendingTimerFires(t)
    \/ BroadcastTimerFires

BroadcastNext ==
    \/ \E u \in {NoUrl, UrlA, UrlB} : nextTabId <= MaxOpened + 1 /\ CreateTab(1, u)
    \/ \E t \in TabIds, u \in {UrlA, UrlB} : Navigate(t, u)
    \/ \E t \in TabIds, u \in {UrlA, UrlB} : TypedNavigate(t, u)
    \/ \E t \in TabIds \ {1} : UserRemoveTab(t)
    \/ PeriodicAlarm
    \/ BroadcastWork

\* Handlers in flight go on, timers fire and the alarm comes every minute.
SpecBroadcastFair ==
    /\ BroadcastInit
    /\ [][BroadcastNext]_vars
    /\ WF_vars(BroadcastWork)
    /\ WF_vars(PeriodicAlarm)
(***************************************************************************)
(* Failing host API calls.  A handler is followed along the path on which  *)
(* it makes the most calls; each awaited host call answers or rejects.     *)
(* onFail says where a rejection of the call goes:                         *)
(*   continue  caught in the callee (or an inner try), the handler goes on *)
(*   end       caught by a try around the rest of the handler, which ends  *)
(*   reject    no try on the way out: the handler's promise rejects        *)
(***************************************************************************)
HostCall(api, onFail) == [api |-> api, onFail |-> onFail]

HandlerNames ==
    {"handleTabCreated", "handleTabUpdated", "checkPendingTab", "handleTabRemoved",
     "inactiveAlarm", "periodicAlarm", "SAVE_SETTINGS", "RESTORE_FROM_CORRAL"}

\* The awaited host calls of each listener, in order.
Program(k) ==
    CASE
      \* handleTabCreated, over the limit: getSettings, getCurrentTabCount,
      \* updateBadge, closeTab (tabs.remove, incrementBlocked)
         k = "handleTabCreated" ->
            << HostCall("storage.get", "continue"), HostCall("tabs.query", "reject"),
               HostCall("tabs.query", "continue"), HostCall("tabs.remove", "continue"),
               HostCall("storage.get", "continue"), HostCall("storage.set", "continue") >>
      \* handleTabUpdated, Case 3 over the limit: getSettings, getCurrentTabCount,
      \* closeTab
      [] k = "handleTabUpdated" ->
            << HostCall("storage.get", "continue"), HostCall("tabs.query", "reject"),
               HostCall("tabs.remove", "continue"),
               HostCall("storage.get", "continue"), HostCall("storage.set", "continue") >>
      \* checkPendingTab: getSettings, then tabs.get, getCurrentTabCount and
      \* closeTab inside its try
      [] k = "checkPendingTab" ->
            << HostCall("storage.get", "continue"), HostCall("tabs.get", "end"),
               HostCall("tabs.query", "end"), HostCall("tabs.remove", "continue"),
               HostCall("storage.get", "continue"), HostCall("storage.set", "continue") >>
      \* handleTabRemoved's timer: broadcastTabCount (getSettings, its queries in
      \* one try), then updateBadge (one try)
      [] k = "handleTabRemoved" ->
            << HostCall("storage.get", "continue"), HostCall("tabs.query", "continue"),
               HostCall("tabs.query", "continue") >>
      \* the alarm listener on the inactive-tabs alarm: _flushPersist, then
      \* checkInactiveTabs(true): getSettings, tabs.query, tabs.remove, addToCorral,
      \* incrementInactiveClosed
      [] k = "inactiveAlarm" ->
            << HostCall("storage.set", "continue"), HostCall("storage.get", "continue"),
               HostCall("tabs.query", "reject"), HostCall("tabs.remove", "continue"),
               HostCall("storage.get", "continue"), HostCall("storage.set", "continue"),
               HostCall("storage.get", "continue"), HostCall("storage.set", "reject") >>
      \* the alarm listener on the periodicCheck alarm: _flushPersist, periodicCheck
      \* (getSettings, its queries in one try), cleanExpiredCorral (one try)
      [] k = "periodicAlarm" ->
            << HostCall("storage.set", "continue"), HostCall("storage.get", "continue"),
               HostCall("tabs.query", "continue"),
               HostCall("storage.get", "continue"), HostCall("storage.get", "end"),
               HostCall("storage.set", "end") >>
      \* the message listener on SAVE_SETTINGS: getSettings, saveSettings
      [] k = "SAVE_SETTINGS" ->
            << HostCall("storage.get", "continue"), HostCall("storage.set", "reject"),
               HostCall("storage.set", "continue") >>
      \* the message listener on RESTORE_FROM_CORRAL: restoreFromCorral (one try)
      [] k = "RESTORE_FROM_CORRAL" ->
            << HostCall("storage.get", "end"), HostCall("storage.set", "end"),
               HostCall("tabs.create", "end") >>
      \* startup: getStats, saveStats, restoreTabActivity (one try)
      [] OTHER ->
            << HostCall("storage.get", "continue"), HostCall("storage.set", "reject"),
               HostCall("storage.get", "continue"), HostCall("tabs.query", "continue") >>

failureOther == <<hostVars, storeVars, memVars, schedVars, histVars, obsNotCalls, reaperVars>>

\* The service worker has just been loaded: the startup function runs.
FailureInit ==
    /\ tabs = (1 :> Tab(1, UrlB) @@ 2 :> Tab(1, UrlB))
    /\ settings = DEFAULT_SETTINGS
    /\ EnforcementIdle
    /\ lastQuery = NoQuery /\ lastTrigger = NoTrigger /\ lastCorralOp = NoCorralOp
    /\ bcast = NoBcast
    /\ calls = [NoCalls EXCEPT !.handler = "startup", !.pc = 1]
    /\ MoreAtRest

\* The host delivers an event, an alarm or a message: its listener starts.
\* An earlier rejection does not stop the delivery.
Dispatch(k) ==
    /\ calls.handler = "none"
    /\ calls.dispatched < MaxDispatched
    /\ calls' = [calls EXCEPT !.handler = k, !.pc = 1, !.dispatched = @ + 1]
    /\ UNCHANGED failureOther

Ended(outcome, api) ==
    [calls EXCEPT !.handler = "none", !.pc = 0, !.ended = calls.handler,
                  !.outcome = outcome, !.api = api]

\* The awaited host call answers.
CallAnswers ==
    /\ calls.handler # "none"
    /\ calls' = IF calls.pc = Len(Program(calls.handler))
                THEN Ended("finished", "none")
                ELSE [calls EXCEPT !.pc = @ + 1]
    /\ UNCHANGED failureOther

\* The awaited host call rejects.
CallRejects ==
    /\ calls.handler # "none"
    /\ calls.failures < MaxFailures
    /\ LET c == Program(calls.handler)[calls.pc]
           failed == [calls EXCEPT !.failures = @ + 1]
       IN  calls' =
             IF c.onFail = "reject"
             THEN [Ended("rejected", c.api) EXCEPT !.failures = failed.failures]
             ELSE IF c.onFail = "end" \/ calls.pc = Len(Program(calls.handler))
             THEN [Ended("caught", c.api) EXCEPT !.failures = failed.failures]
             ELSE [failed EXCEPT !.pc = @ + 1]
    /\ UNCHANGED failureOther

FailureNext ==
    \/ \E k \in HandlerNames : Dispatch(k)
    \/ CallAnswers
    \/ CallRejects

SpecFailure == FailureInit /\ [][FailureNext]_vars
(***************************************************************************)
(* The popup's steppers and SAVE_SETTINGS.  The popup loads the settings   *)
(* when it opens, changes its own copy on a click and sends the whole copy;*)
(* the background stores what it is sent.                                  *)
(***************************************************************************)
popupOther == <<hostVars, stats, tabCorral, memVars, schedVars, histVars, obsOnly, reaperVars,
               activated, persist, messages>>

PopupInit ==
    /\ tabs = (1 :> [Tab(1, UrlB) EXCEPT !.active = TRUE])
    /\ settings = DEFAULT_SETTINGS
    /\ EnforcementIdle
    /\ lastQuery = NoQuery /\ ObsAtRest

\* DOMContentLoaded: loadSettings merges the answer of GET_SETTINGS over the
\* popup's defaults (the answer has every key).
PopupOpens ==
    /\ ~popup.open
    /\ popup' = [popup EXCEPT !.open = TRUE, !.settings = settings]
    /\ UNCHANGED <<settings, lastStats, popupOther>>

PopupCloses ==
    /\ popup.open
    /\ popup' = [NoPopup EXCEPT !.settings = popup.settings, !.msgs = popup.msgs]
    /\ UNCHANGED <<settings, lastStats, popupOther>>

\* saveSettings(): the popup's settings object goes out in a SAVE_SETTINGS
\* message
Click(s) ==
    /\ popup.open
    /\ Cardinality(popup.msgs) < MaxClicks
    /\ popup' = [popup EXCEPT !.settings = s, !.msgs = @ \cup {s}]
    /\ UNCHANGED <<settings, lastStats, popupOther>>

canDecreaseMaxTabsMutant(s) == ~s.tabLimitLocked /\ s.maxTabs > 0

\* decreaseBtn: if (settings.tabLimitLocked) return; if (settings.maxTabs > 1)
canDecreaseMaxTabs(s) == ~s.tabLimitLocked /\ s.maxTabs > 1

DecreaseMaxTabs ==
    /\ canDecreaseMaxTabs(popup.settings)
    /\ Click([popup.settings EXCEPT !.maxTabs = @ - 1])

\* increaseBtn: if (settings.maxTabs < 500)
IncreaseMaxTabs ==
    /\ ~popup.settings.tabLimitLocked
    /\ popup.settings.maxTabs < MAX_TABS_CEILING
    /\ popup.settings.maxTabs < MaxShownTabs
    /\ Click([popup.settings EXCEPT !.maxTabs = @ + 1])

\* decreaseMinTabs: if (current > 1)
DecreaseMinTabs ==
    /\ popup.settings.minTabs > 1
    /\ Click([popup.settings EXCEPT !.minTabs = @ - 1])

\* increaseMinTabs: if (current < 50)
IncreaseMinTabs ==
    /\ popup.settings.minTabs < MIN_TABS_CEILING
    /\ popup.settings.minTabs < MaxShownMinTabs
    /\ Click([popup.settings EXCEPT !.minTabs = @ + 1])

\* the lock button locks the limit; unlocking goes through the friction modal
ToggleLock ==
    Click([popup.settings EXCEPT !.tabLimitLocked = ~@])

\* The message listener on SAVE_SETTINGS: saveSettings(message.settings); the
\* timestamps are reset when inactiveMinutes changed.
SaveSettingsMessage(m) ==
    /\ m \in popup.msgs
    /\ settings' = m
    /\ popup' = [popup EXCEPT !.msgs = @ \ {m}]
    /\ tabLastAccessed' = IF settings.inactiveMinutes # m.inactiveMinutes
                          THEN [t \in DOMAIN tabLastAccessed |-> now]
                          ELSE tabLastAccessed
    /\ persist' = IF settings.inactiveMinutes # m.inactiveMinutes
                   THEN persistTabActivityNow(persist, tabLastAccessed', "save")
                   ELSE persist
    /\ UNCHANGED <<hostVars, stats, tabCorral, memVars, schedVars, histVars, obsOnly,
                   lastStats, activated, messages, now, reaper, lastPass>>

PopupNext ==
    \/ PopupOpens
    \/ PopupCloses
    \/ DecreaseMaxTabs
    \/ IncreaseMaxTabs
    \/ DecreaseMinTabs
    \/ IncreaseMinTabs
    \/ ToggleLock
    \/ \E m \in popup.msgs : SaveSettingsMessage(m)

SpecPopup == PopupInit /\ [][PopupNext]_vars
(***************************************************************************)
(* The stats.  Tabs are blocked (incrementBlocked stores the raised        *)
(* counters), days pass over a Sunday, and the popup asks GET_STATS.       *)
(***************************************************************************)
statsOther == <<tabs, nextTabId, settings, tabCorral, memVars, schedVars, histVars, obsOnly,
               popup, activated, persist, messages, reaperVars>>

\* A Friday; startup has stored getStats() of the empty storage.
StatsInit ==
    /\ tabs = (1 :> [Tab(1, UrlB) EXCEPT !.active = TRUE])
    /\ nextTabId = 2
    /\ today = 12
    /\ settings = DEFAULT_SETTINGS
    /\ stats = getStats(DEFAULT_STATS, today)
    /\ tabCorral = <<>>
    /\ pendingTabs = {} /\ allowlistTabs = {} /\ corralRestoredTabs = {}
    /\ handlers = {} /\ timers = {}
    /\ envCount = NoEnv /\ closedCount = 0 /\ lastClose = NoClose
    /\ lastCreated = NoCreated /\ everRestored = FALSE
    /\ lastQuery = NoQuery /\ ObsAtRest
    /\ ReaperAtRest

\* closeTab has removed a tab: incrementBlocked reads, raises and saves
Blocked ==
    /\ stats.blockedTotal < MaxBlocked
    /\ stats' = incrementBlocked(stats, today)
    /\ UNCHANGED <<today, lastStats, statsOther>>

\* midnight
DayPasses ==
    /\ today < 12 + MaxDays
    /\ today' = today + 1
    /\ UNCHANGED <<stats, lastStats, statsOther>>

\* The message listener on GET_STATS: return await getStats()
GetStatsMessage ==
    /\ lastStats' = [asked |-> TRUE, stored |-> stats, day |-> today,
                     answer |-> getStats(stats, today)]
    /\ UNCHANGED <<today, stats, statsOther>>

StatsNext ==
    \/ Blocked
    \/ DayPasses
    \/ GetStatsMessage

SpecStats == StatsInit /\ [][StatsNext]_vars
(***************************************************************************)
(* Specification SpecActivate: the user switches between the tabs of a     *)
(* window while the activation debounce and the Reaper run.                *)
(* Specification SpecPersist: the same with the debounce off, the          *)
(* inactivity alarm ticking and the activity map flushed to storage.       *)
(***************************************************************************)

activityOther == <<nextTabId, today, storeVars, memVars, timers, histVars>>

\* Three tabs of one window, the first active; the others were last used at
\* time 1, and the last one may be pinned, audible, internal or allowlisted.
\* The stored map is the map in memory.
ActivityStart(profiles, floors, delays, followed) ==
    /\ \E prof \in profiles, st \in {1} :
          /\ tabs = [t \in TabIds |-> ReaperTab(1, IF t = MaxTabId THEN prof ELSE "plain", t = 1)]
          /\ tabLastAccessed = [t \in TabIds |-> IF t = 1 THEN MaxStamp ELSE st]
          /\ allowlistTabs = {t \in TabIds : t = MaxTabId /\ prof = "allowed"}
    /\ \E mt \in floors, d \in delays :
          settings = [DEFAULT_SETTINGS EXCEPT
                        !.allowlistEnabled = TRUE, !.allowlist = << <<"a">> >>,
                        !.inactiveEnabled = TRUE, !.inactiveMinutes = InactiveMinutes,
                        !.minTabs = mt, !.debounceDelay = d]
    /\ now = MaxStamp + 1
    /\ reaper = ReaperIdle
    /\ lastPass = NoPass
    /\ nextTabId = MaxTabId + 1
    /\ today = 8
    /\ stats = getStats(DEFAULT_STATS, today)
    /\ tabCorral = <<>>
    /\ pendingTabs = {} /\ corralRestoredTabs = {}
    /\ handlers = {} /\ timers = {}
    /\ envCount = NoEnv /\ closedCount = 0 /\ lastClose = NoClose
    /\ lastCreated = NoCreated /\ everRestored = FALSE
    /\ lastQuery = NoQuery
    /\ lastTrigger = NoTrigger /\ lastCorralOp = NoCorralOp /\ bcast = NoBcast /\ calls = NoCalls
    /\ popup = NoPopup /\ lastStats = NoStats
    /\ activated = NoActivated /\ messages = NoMessages
    /\ persist = IF followed THEN [NoPersist EXCEPT !.on = TRUE, !.stored = tabLastAccessed]
                 ELSE NoPersist

\* The user switches to tab t: it becomes the active tab of its window and
\* the host fires onActivated.
ActivateWithin(t, budget) ==
    /\ t \in DOMAIN tabs /\ ~tabs[t].active
    /\ activated.events < budget
    /\ tabs' = [x \in DOMAIN tabs |->
                  IF tabs[x].windowId = tabs[t].windowId
                  THEN [tabs[x] EXCEPT !.active = (x = t)] ELSE tabs[x]]
    /\ handlers' = handlers \cup {Handler("activated", t, "start", NoUrl, tabs[t].windowId)}
    /\ activated' = [activated EXCEPT !.events = @ + 1, !.last = t]
    /\ UNCHANGED <<activityOther, obsNotActivation, persist, reaperVars>>

\* if (activatedDebounceTimer) { clearTimeout(...); activatedDebounceTimer = null }
cancelPrevious(a) == [a EXCEPT !.timeouts = @ \ {a.timer}, !.timer = 0]

ActivateTab(t) == ActivateWithin(t, MaxActivations)

\* handleTabActivated: getSettings() answers; the debounce timer is replaced
\* (or the tab stamped at once), checkInactiveTabs() is called, up to the
\* await of getCurrentTabCount.
ActivatedStart(h) ==
    /\ h.kind = "activated" /\ h.pc = "start"
    /\ IF settings.debounceDelay > 0
       THEN /\ activated' = [cancelPrevious(activated) EXCEPT
                               !.tabId = h.tab, !.timer = h.tab,
                               !.timeouts = @ \cup {h.tab}]
            /\ UNCHANGED <<tabLastAccessed, persist>>
       ELSE /\ tabLastAccessed' = SetStamps(tabLastAccessed, {h.tab}, now)
            /\ persist' = persistTabActivity(persist)
            /\ UNCHANGED activated
    /\ reaper' = afterCheckCall(FALSE)
    /\ handlers' = Replace(h, [h EXCEPT !.pc = "count"])
    /\ UNCHANGED <<tabs, activityOther, obsNotActivation, now, lastPass>>

\* handleTabActivated: the count answers and TAB_COUNT_UPDATED is sent
ActivatedCount(h) ==
    /\ h.kind = "activated" /\ h.pc = "count"
    /\ handlers' = handlers \ {h}
    /\ Noted(TRUE, getCurrentTabCount(h.win, settings))
    /\ UNCHANGED <<tabs, activityOther, obsNotBcast, reaperVars>>

\* The debounce timeout set for tab t fires: the tab is stamped when it is
\* still the one being debounced.
DebounceFires(t) ==
    /\ t \in activated.timeouts
    /\ LET still == activated.tabId = t
       IN  /\ tabLastAccessed' = IF still THEN SetStamps(tabLastAccessed, {t}, now)
                                 ELSE tabLastAccessed
           /\ persist' = IF still THEN persistTabActivity(persist) ELSE persist
           /\ activated' = [activated EXCEPT
                              !.timeouts = @ \ {t}, !.timer = 0, !.tabId = 0,
                              !.stampedTab = IF still THEN t ELSE @,
                              !.latestAtStamp = IF still THEN activated.last ELSE @]
    /\ UNCHANGED <<tabs, activityOther, handlers, obsNotActivation, now, reaper, lastPass>>

\* await _flushPersist(): the listener waits when a write was made
awaitsFlush(p) == p.dirty

\* The inactivity alarm fires: the listener calls _flushPersist() first.
AlarmFires ==
    /\ ~\E h \in handlers : h.kind = "alarm"
    /\ envCount.attached < MaxAlarms
    /\ envCount' = [envCount EXCEPT !.attached = @ + 1]
    /\ persist' = flushPersist(persist, tabLastAccessed, "alarm")
    /\ handlers' = handlers \cup
          {[Handler("alarm", 0, IF awaitsFlush(persist) THEN "flush" ELSE "check", NoUrl, 0)
              EXCEPT !.was = persist.dirty]}
    /\ UNCHANGED <<hostVars, storeVars, memVars, timers, closedCount, lastClose,
                   lastCreated, everRestored, obsNotPersist, reaperVars>>

\* The alarm listener goes on: checkInactiveTabs(true).
AlarmCheck(h) ==
    /\ h.kind = "alarm" /\ h.pc = "check"
    /\ reaper' = afterCheckCall(TRUE)
    /\ handlers' = handlers \ {h}
    /\ UNCHANGED <<tabs, activityOther, obsVars, tabLastAccessed, now, lastPass>>

\* The oldest storage.local.set({ tabActivity }) answers: the data is stored
\* and its caller goes on.
FlushAnswers ==
    /\ persist.inflight # <<>>
    /\ LET w == Head(persist.inflight)
       IN  /\ persist' = [persist EXCEPT !.stored = w.data, !.inflight = Tail(@)]
           /\ reaper' = IF w.by = "reaper" THEN ReaperDone(reaper) ELSE reaper
           /\ handlers' = IF w.by = "alarm"
                          THEN {IF h.kind = "alarm" /\ h.pc = "flush"
                                THEN [h EXCEPT !.pc = "check"] ELSE h : h \in handlers}
                          ELSE handlers
    /\ UNCHANGED <<tabs, activityOther, obsNotPersist, tabLastAccessed, now, lastPass>>

ReaperSteps ==
    \/ ReaperGetSettings
    \/ ReaperSelect
    \/ \E t \in TabIds : ReaperRemove(t)
    \/ ReaperCorralGet
    \/ ReaperCorralSet
    \/ ReaperStatsGet
    \/ ReaperStatsSet

ActivateInit == ActivityStart(Profiles, {0, MaxMinTabs}, {0, DEFAULT_DEBOUNCE_DELAY}, FALSE)

ActivateNext ==
    \/ \E t \in TabIds : ActivateTab(t)
    \/ \E h \in handlers : ActivatedStart(h) \/ ActivatedCount(h)
    \/ \E t \in TabIds : DebounceFires(t)
    \/ ReaperSteps
    \/ Tick

SpecActivate == ActivateInit /\ [][ActivateNext]_vars

PersistInit == ActivityStart({"plain", "pinned"}, {0, MaxTabId}, {0}, TRUE)

PersistNext ==
    \/ \E t \in TabIds : ActivateWithin(t, 1)
    \/ \E h \in handlers : ActivatedStart(h) \/ ActivatedCount(h) \/ AlarmCheck(h)
    \/ AlarmFires
    \/ PersistTimerFires
    \/ FlushAnswers
    \/ ReaperSteps
    \/ Tick

SpecPersist == PersistInit /\ [][PersistNext]_vars
(***************************************************************************)
(* Specification SpecMessages: the popup's Inactive Tabs list asks for the *)
(* idle times and sends CHECK_INACTIVE_TABS when one has run out, while    *)
(* time passes and the inactivity alarm runs the Reaper.                   *)
(***************************************************************************)

\* the message types popup.js sends with browser.runtime.sendMessage
PopupRequests ==
    {"GET_SETTINGS", "SAVE_SETTINGS", "GET_STATS", "GET_TAB_COUNT", "CLEAR_CORRAL",
     "RESTORE_FROM_CORRAL", "GET_INACTIVE_TABS", "CHECK_INACTIVE_TABS", "GET_CORRAL"}

\* switch (message.type) of the background's message listener
messageCase(type) ==
    IF type \in {"GET_SETTINGS", "SAVE_SETTINGS", "GET_STATS", "GET_INACTIVE_TABS",
                 "GET_CORRAL", "RESTORE_FROM_CORRAL", "CLEAR_CORRAL", "GET_TAB_COUNT"}
    THEN type ELSE "default"

\* getInactiveTabsInfo(): the tabs that are not active, each with its
\* timestamp (now when it has none) and whether a protection covers it
getInactiveTabsInfo(ts, stamps, s, at) ==
    [t \in {x \in DOMAIN ts : ~ts[x].active} |->
        [lastAccessed |-> IF lastAccessedOf(stamps, t) = 0 THEN at
                          ELSE lastAccessedOf(stamps, t),
         isProtected |-> \/ s.protectPinned /\ ts[t].pinned
                         \/ s.protectAudible /\ ts[t].audible
                         \/ /\ s.protectAllowlist /\ s.allowlistEnabled
                            /\ Len(s.allowlist) > 0
                            /\ isUrlAllowed(ts[t].url, s.allowlist)]]

\* updateInactiveTabsList: some unprotected tab has no time left
hasExpired(info, s, at) ==
    \E t \in DOMAIN info :
        ~info[t].isProtected /\ s.inactiveMinutes - (at - info[t].lastAccessed) <= 0

messagesOther == <<nextTabId, today, storeVars, memVars, schedVars, histVars>>

\* updateInactiveTabsList sends GET_INACTIVE_TABS
UpdateInactiveTabsList ==
    /\ messages.sent < MaxMessages
    /\ "GET_INACTIVE_TABS" \notin messages.inflight
    /\ messages' = [messages EXCEPT !.sent = @ + 1,
                                    !.inflight = @ \cup {"GET_INACTIVE_TABS"}]
    /\ UNCHANGED <<tabs, messagesOther, obsNotMessages, reaperVars>>

\* The listener answers GET_INACTIVE_TABS; the popup shows the list and
\* sends CHECK_INACTIVE_TABS when a tab has expired and inactiveEnabled is on.
InactiveTabsMessage ==
    /\ "GET_INACTIVE_TABS" \in messages.inflight
    /\ LET info == getInactiveTabsInfo(tabs, tabLastAccessed, settings, now)
           expired == hasExpired(info, settings, now)
       IN  messages' = [messages EXCEPT
                          !.inflight = (@ \ {"GET_INACTIVE_TABS"}) \cup
                                       IF expired /\ settings.inactiveEnabled
                                       THEN {"CHECK_INACTIVE_TABS"} ELSE {},
                          !.last = [type |-> "GET_INACTIVE_TABS",
                                    case |-> messageCase("GET_INACTIVE_TABS"),
                                    expired |-> expired, pass |-> FALSE]]
    /\ UNCHANGED <<tabs, messagesOther, obsNotMessages, reaperVars>>

\* The listener gets a message its switch has no case for: default, return null.
UnhandledMessage(type) ==
    /\ type \in messages.inflight
    /\ messageCase(type) = "default"
    /\ UNCHANGED <<tabs, messagesOther, obsNotMessages, reaperVars>>
    /\ messages' = [messages EXCEPT
                      !.inflight = @ \ {type},
                      !.last = [type |-> type, case |-> "default",
                                expired |-> FALSE, pass |-> reaper' # reaper]]

MessagesInit ==
    ActivityStart(Profiles, {0, MaxMinTabs}, {DEFAULT_DEBOUNCE_DELAY}, FALSE)

MessagesNext ==
    \/ UpdateInactiveTabsList
    \/ InactiveTabsMessage
    \/ \E type \in PopupRequests : UnhandledMessage(type)
    \/ checkInactiveTabs(TRUE)
    \/ ReaperSteps
    \/ Tick

SpecMessages == MessagesInit /\ [][MessagesNext]_vars
(***************************************************************************)
(* The popup's friction modal.  Texts are sequences of characters; the     *)
(* characters stand for an upper-case letter, its lower-case form and a    *)
(* space.                                                                  *)
(***************************************************************************)
Chars == {"B", "b", " "}

\* two of the FRICTION_PHRASES: each starts with a capital, has no space at
\* either end and the first has a space inside
FRICTION_PHRASES == {<<"B", " ", "B">>, <<"B", "b">>}

Texts == UNION {[1..n -> Chars] : n \in 0..MaxTyped}

RECURSIVE trimStart(_)
trimStart(text) ==
    IF text # <<>> /\ Head(text) = " " THEN trimStart(Tail(text)) ELSE text

RECURSIVE trimEnd(_)
trimEnd(text) ==
    IF text # <<>> /\ text[Len(text)] = " "
    THEN trimEnd(SubSeq(text, 1, Len(text) - 1)) ELSE text

\* String.prototype.trim
trim(text) == trimEnd(trimStart(text))

validatePhraseMutant(typed, phrase) ==
    toLowerCase(SelectSeq(typed, LAMBDA c : c # " ")) =
        toLowerCase(SelectSeq(phrase, LAMBDA c : c # " "))

\* typed = phraseInput.value.trim().toLowerCase(), required =
\* currentFrictionPhrase.toLowerCase(); typed === required
validatePhrase(typed, phrase) == toLowerCase(trim(typed)) = toLowerCase(phrase)

frictionOther == <<hostVars, stats, tabCorral, memVars, schedVars, histVars, obsOnly, reaperVars,
                  activated, persist>>

\* saveSettings(): one more SAVE_SETTINGS message sent
sendsSettings == [messages EXCEPT !.sent = @ + 1]

\* a handler changes the popup's settings object and calls saveSettings()
ClickBy(s, who) ==
    /\ popup.open
    /\ Cardinality(popup.msgs) < MaxSaves /\ messages.sent < MaxMessages
    /\ popup' = [popup EXCEPT !.settings = s, !.msgs = @ \cup {s}]
    /\ messages' = sendsSettings
    /\ UNCHANGED <<settings, lastStats, frictionOther>>

\* showFrictionModal(action): a random phrase, the input emptied
showFrictionModal(action) ==
    /\ popup.open
    /\ \E phrase \in FRICTION_PHRASES :
          popup' = [popup EXCEPT !.action = action, !.phrase = phrase, !.typed = <<>>]
    /\ UNCHANGED <<settings, lastStats, popupOther>>

\* lockBtn
LockButton ==
    IF popup.settings.tabLimitLocked
    THEN showFrictionModal("unlock")
    ELSE ClickBy([popup.settings EXCEPT !.tabLimitLocked = TRUE], "lockBtn")

\* decreaseBtn and increaseBtn
StepMaxTabs ==
    \/ /\ canDecreaseMaxTabs(popup.settings)
       /\ ClickBy([popup.settings EXCEPT !.maxTabs = @ - 1], "decreaseBtn")
    \/ /\ ~popup.settings.tabLimitLocked
       /\ popup.settings.maxTabs < MAX_TABS_CEILING
       /\ popup.settings.maxTabs < MaxShownTabs
       /\ ClickBy([popup.settings EXCEPT !.maxTabs = @ + 1], "increaseBtn")

\* disableBtn (header)
DisableButton ==
    IF popup.settings.enabled
    THEN showFrictionModal("disable")
    ELSE ClickBy([popup.settings EXCEPT !.enabled = TRUE], "disableBtn")

\* enableBtn (shown in the inactive state)
EnableButton ==
    ClickBy([popup.settings EXCEPT !.enabled = TRUE], "enableBtn")

\* globalLimitToggle changes to checked
GlobalLimitToggle(checked) ==
    IF ~checked
    THEN showFrictionModal("disableGlobal")
    ELSE ClickBy([popup.settings EXCEPT !.globalLimit = TRUE], "globalLimitToggle")

\* allowlistToggle changes to checked
AllowlistToggle(checked) ==
    IF checked
    THEN showFrictionModal("allowlist")
    ELSE ClickBy([popup.settings EXCEPT !.allowlistEnabled = FALSE], "allowlistToggle")

\* the user edits the phrase input while the modal is shown
TypePhrase(text) ==
    /\ popup.open /\ popup.action # "none"
    /\ popup' = [popup EXCEPT !.typed = text]
    /\ UNCHANGED <<settings, lastStats, popupOther>>

\* hideFrictionModal
hideFrictionModal(p) == [p EXCEPT !.action = "none", !.typed = <<>>]

\* modalCancel, Escape, or a click on the backdrop
CancelModal ==
    /\ popup.open /\ popup.action # "none"
    /\ popup' = hideFrictionModal(popup)
    /\ UNCHANGED <<settings, lastStats, popupOther>>

\* what confirmFrictionAction assigns for currentFrictionAction
frictionEffect(s, action) ==
    CASE action = "disable" -> [s EXCEPT !.enabled = FALSE]
      [] action = "allowlist" -> [s EXCEPT !.allowlistEnabled = TRUE]
      [] action = "unlock" -> [s EXCEPT !.tabLimitLocked = FALSE]
      [] action = "disableGlobal" -> [s EXCEPT !.globalLimit = FALSE]
      [] OTHER -> s

\* confirmFrictionAction (modalConfirm or Enter) up to await saveSettings();
\* a phrase that does not match only flashes the input
ConfirmFriction ==
    /\ popup.open /\ popup.action # "none"
    /\ Cardinality(popup.msgs) < MaxSaves /\ messages.sent < MaxMessages
    /\ validatePhrase(popup.typed, popup.phrase)
    /\ LET s == frictionEffect(popup.settings, popup.action)
       IN  popup' = [popup EXCEPT !.settings = s, !.msgs = @ \cup {s},
                                  !.hides = @ + 1]
    /\ messages' = sendsSettings
    /\ UNCHANGED <<settings, lastStats, frictionOther>>

\* saveSettings() has settled (answered, or the send failed and was caught):
\* updateUI(); hideFrictionModal()
ConfirmContinues ==
    /\ popup.open /\ popup.hides > 0
    /\ popup' = [hideFrictionModal(popup) EXCEPT !.hides = @ - 1]
    /\ UNCHANGED <<settings, lastStats, popupOther>>

FrictionInit ==
    /\ tabs = (1 :> [Tab(1, UrlB) EXCEPT !.active = TRUE])
    /\ \E l \in BOOLEAN : settings = [DEFAULT_SETTINGS EXCEPT !.tabLimitLocked = l]
    /\ EnforcementIdle
    /\ lastQuery = NoQuery /\ ObsAtRest

FrictionNext ==
    \/ PopupOpens
    \/ PopupCloses
    \/ LockButton
    \/ StepMaxTabs
    \/ DisableButton
    \/ EnableButton
    \/ \E checked \in BOOLEAN : GlobalLimitToggle(checked)
    \/ \E checked \in BOOLEAN : AllowlistToggle(checked)
    \/ \E text \in Texts : TypePhrase(text)
    \/ CancelModal
    \/ ConfirmFriction
    \/ ConfirmContinues
    \/ \E m \in popup.msgs : SaveSettingsMessage(m)

SpecFriction == FrictionInit /\ [][FrictionNext]_vars

(***************************************************************************)
(* Specification SpecLedger: the statistics under an enforcement close and *)
(* a pass of the Reaper at the same time.  The window is at its limit with *)
(* one tab idle; a page opens one more tab and a pass is started.          *)
(***************************************************************************)
LedgerInit ==
    /\ tabs = (1 :> ReaperTab(1, "plain", TRUE) @@ 2 :> ReaperTab(1, "plain", FALSE))
    /\ tabLastAccessed = (1 :> MaxStamp @@ 2 :> 1)
    /\ allowlistTabs = {}
    /\ \E mt \in {0, MaxMinTabs}, g \in BOOLEAN :
          settings = [DEFAULT_SETTINGS EXCEPT
                        !.maxTabs = 2, !.globalLimit = g,
                        !.inactiveEnabled = TRUE, !.inactiveMinutes = InactiveMinutes,
                        !.minTabs = mt]
    /\ now = MaxStamp + 1
    /\ reaper = ReaperIdle
    /\ lastPass = NoPass
    /\ nextTabId = 3
    /\ today = 8
    /\ stats = getStats(DEFAULT_STATS, today)
    /\ tabCorral = <<>>
    /\ pendingTabs = {} /\ corralRestoredTabs = {}
    /\ handlers = {} /\ timers = {}
    /\ envCount = NoEnv /\ closedCount = 0 /\ lastClose = NoClose
    /\ lastCreated = NoCreated /\ everRestored = FALSE
    /\ lastQuery = NoQuery /\ ObsAtRest

\* the first call of checkInactiveTabs
FirstPass ==
    /\ ~lastPass.ran
    /\ checkInactiveTabs(TRUE)

LedgerNext ==
    \/ \E w \in Windows : CreateTab(w, UrlB)
    \/ \E h \in handlers : CreatedStart(h)
    \/ \E h \in handlers : CreatedCount(h)
    \/ \E h \in handlers : CreatedDecide(h)
    \/ \E h \in handlers : CloseRemove(h)
    \/ \E h \in handlers : CloseGetStats(h)
    \/ \E h \in handlers : CloseSaveStats(h)
    \/ FirstPass
    \/ ReaperSteps

SpecLedger == LedgerInit /\ [][LedgerNext]_vars

(***************************************************************************)
(* Specification SpecCorralRace: the stored corral under a pass of the     *)
(* Reaper (addToCorral) while the popup restores an entry or clears the    *)
(* list.  One entry is stored at the start and one tab is idle.            *)
(***************************************************************************)
CorralRaceInit ==
    /\ tabs = (1 :> ReaperTab(1, "plain", TRUE) @@ 2 :> ReaperTab(1, "plain", FALSE))
    /\ tabLastAccessed = (1 :> MaxStamp @@ 2 :> 1)
    /\ allowlistTabs = {}
    /\ \E wo \in WrangleOptions, g \in BOOLEAN :
          settings = [DEFAULT_SETTINGS EXCEPT
                        !.globalLimit = g, !.wrangleOption = wo,
                        !.inactiveEnabled = TRUE, !.inactiveMinutes = InactiveMinutes,
                        !.minTabs = 0]
    /\ now = MaxStamp + 1
    /\ reaper = ReaperIdle
    /\ lastPass = NoPass
    /\ nextTabId = 3
    /\ today = 8
    /\ stats = getStats(DEFAULT_STATS, today)
    /\ tabCorral = <<CorralEntry(UrlA, 1)>>
    /\ pendingTabs = {} /\ corralRestoredTabs = {}
    /\ handlers = {} /\ timers = {}
    /\ envCount = NoEnv /\ closedCount = 0 /\ lastClose = NoClose
    /\ lastCreated = NoCreated /\ everRestored = FALSE
    /\ lastQuery = NoQuery /\ ObsAtRest

CorralRaceNext ==
    \/ FirstPass
    \/ ReaperSteps
    \/ \E i \in {0, 1} : RestoreMessage(i)
    \/ \E h \in handlers : RestoreGet(h)
    \/ \E h \in handlers : RestoreSet(h)
    \/ \E h \in handlers, w \in Windows : RestoreCreate(h, w)
    \/ \E h \in handlers : RestoreMark(h)
    \/ \E t \in TabIds : GraceTimerFires(t)
    \/ \E h \in handlers : CreatedStart(h)
    \/ \E h \in handlers : CreatedCount(h)
    \/ \E h \in handlers : CreatedDecide(h)
    \/ ClearCorral

SpecCorralRace == CorralRaceInit /\ [][CorralRaceNext]_vars

(***************************************************************************)
(* Specification SpecRestore: RESTORE_FROM_CORRAL requests of the popup,   *)
(* with an index inside or outside the stored list, and a reopening        *)
(* (tabs.create) that may fail.                                            *)
(***************************************************************************)
RestoreInit ==
    /\ tabs = (1 :> ReaperTab(1, "plain", TRUE))
    /\ tabLastAccessed = (1 :> 1)
    /\ allowlistTabs = {}
    /\ \E m \in 1..MaxLimit, g \in BOOLEAN :
          settings = [DEFAULT_SETTINGS EXCEPT !.globalLimit = g, !.maxTabs = m]
    /\ now = 1
    /\ reaper = ReaperIdle
    /\ lastPass = NoPass
    /\ nextTabId = 2
    /\ today = 8
    /\ stats = getStats(DEFAULT_STATS, today)
    /\ tabCorral \in {<<>>, <<CorralEntry(UrlA, 1)>>, <<CorralEntry(UrlB, 1), CorralEntry(UrlA, 1)>>}
    /\ pendingTabs = {} /\ corralRestoredTabs = {}
    /\ handlers = {} /\ timers = {}
    /\ envCount = NoEnv /\ closedCount = 0 /\ lastClose = NoClose
    /\ lastCreated = NoCreated /\ everRestored = FALSE
    /\ lastQuery = NoQuery /\ ObsAtRest

\* The popup sends { type: "RESTORE_FROM_CORRAL", index }; the listener calls
\* restoreFromCorral(message.index).  The stored list and the open tabs at
\* that moment are noted.
RestoreRequest(i) ==
    /\ RestoresInFlight = {} /\ ~\E h \in handlers : h.kind = "restore"
    /\ messages.sent < MaxMessages
    /\ handlers' = handlers \cup {[Handler("restore", 0, "get", NoUrl, 0) EXCEPT !.idx = i]}
    /\ messages' = [messages EXCEPT
                      !.sent = @ + 1,
                      !.last = [type |-> "RESTORE_FROM_CORRAL", index |-> i,
                                corral |-> tabCorral, tabs |-> DOMAIN tabs]]
    /\ UNCHANGED <<hostVars, storeVars, memVars, timers, histVars, obsNotMessages, reaperVars>>

\* browser.tabs.create rejects: the catch of restoreFromCorral returns false
RestoreCreateFails(h) ==
    /\ h.kind = "restore" /\ h.pc = "create"
    /\ handlers' = handlers \ {h}
    /\ UNCHANGED <<hostVars, storeVars, memVars, timers, histVars, obsVars, reaperVars>>

RestoreNext ==
    \/ \E i \in 0..2 : RestoreRequest(i)
    \/ \E h \in handlers : RestoreGet(h)
    \/ \E h \in handlers : RestoreSet(h)
    \/ \E h \in handlers, w \in Windows : RestoreCreate(h, w)
    \/ \E h \in handlers : RestoreCreateFails(h)
    \/ \E h \in handlers : RestoreMark(h)
    \/ \E t \in TabIds : GraceTimerFires(t)
    \/ \E h \in handlers : CreatedStart(h)
    \/ \E h \in handlers : CreatedCount(h)
    \/ \E h \in handlers : CreatedDecide(h)

SpecRestore == RestoreInit /\ [][RestoreNext]_vars

(***************************************************************************)
(* Specification SpecRemoval: a tab is removed while an activation of it   *)
(* is being handled or debounced.  The Reaper is switched off; the stored  *)
(* activity map is followed.                                               *)
(***************************************************************************)
RemovalInit ==
    /\ \E prof \in {"plain", "allowed"} :
          /\ tabs = [t \in TabIds |-> ReaperTab(1, IF t = MaxTabId THEN prof ELSE "plain", t = 1)]
          /\ allowlistTabs = {t \in TabIds : t = MaxTabId /\ prof = "allowed"}
    /\ tabLastAccessed = [t \in TabIds |-> 1]
    /\ \E d \in {0, DEFAULT_DEBOUNCE_DELAY} :
          settings = [DEFAULT_SETTINGS EXCEPT
                        !.allowlistEnabled = TRUE, !.allowlist = << <<"a">> >>,
                        !.inactiveEnabled = FALSE, !.debounceDelay = d]
    /\ now = MaxStamp
    /\ reaper = ReaperIdle
    /\ lastPass = NoPass
    /\ nextTabId = MaxTabId + 1
    /\ today = 8
    /\ stats = getStats(DEFAULT_STATS, today)
    /\ tabCorral = <<>>
    /\ pendingTabs = {} /\ corralRestoredTabs = {}
    /\ handlers = {} /\ timers = {}
    /\ envCount = NoEnv /\ closedCount = 0 /\ lastClose = NoClose
    /\ lastCreated = NoCreated /\ everRestored = FALSE
    /\ lastQuery = NoQuery
    /\ lastTrigger = NoTrigger /\ lastCorralOp = NoCorralOp /\ bcast = NoBcast /\ calls = NoCalls
    /\ popup = NoPopup /\ lastStats = NoStats
    /\ activated = NoActivated /\ messages = NoMessages
    /\ persist = [NoPersist EXCEPT !.on = TRUE, !.stored = tabLastAccessed]

RemovalNext ==
    \/ \E t \in TabIds : ActivateWithin(t, 1)
    \/ \E h \in handlers : ActivatedStart(h)
    \/ \E h \in handlers : ActivatedCount(h)
    \/ \E t \in TabIds : DebounceFires(t)
    \/ \E t \in TabIds : UserRemoveTab(t)
    \/ ReaperGetSettings
    \/ PersistTimerFires
    \/ FlushAnswers

SpecRemoval == RemovalInit /\ [][RemovalNext]_vars

(***************************************************************************)
(* Specification SpecDisabled: the extension with protection switched off  *)
(* (settings.enabled false) and the Reaper switched on: tabs are opened    *)
(* and the inactivity alarm fires.                                         *)
(***************************************************************************)
DisabledInit ==
    /\ tabs = (1 :> ReaperTab(1, "plain", TRUE) @@ 2 :> ReaperTab(1, "plain", FALSE))
    /\ tabLastAccessed = (1 :> MaxStamp @@ 2 :> 1)
    /\ allowlistTabs = {}
    /\ \E g \in BOOLEAN, mt \in {0, MaxMinTabs}, m \in 1..MaxLimit :
          settings = [DEFAULT_SETTINGS EXCEPT
                        !.enabled = FALSE, !.maxTabs = m, !.globalLimit = g,
                        !.inactiveEnabled = TRUE, !.inactiveMinutes = InactiveMinutes,
                        !.minTabs = mt]
    /\ now = MaxStamp + 1
    /\ reaper = ReaperIdle
    /\ lastPass = NoPass
    /\ nextTabId = 3
    /\ today = 8
    /\ stats = getStats(DEFAULT_STATS, today)
    /\ tabCorral = <<>>
    /\ pendingTabs = {} /\ corralRestoredTabs = {}
    /\ handlers = {} /\ timers = {}
    /\ envCount = NoEnv /\ closedCount = 0 /\ lastClose = NoClose
    /\ lastCreated = NoCreated /\ everRestored = FALSE
    /\ lastQuery = NoQuery /\ ObsAtRest

DisabledNext ==
    \/ \E w \in Windows : CreateTab(w, UrlB)
    \/ \E h \in handlers : CreatedStart(h)
    \/ AlarmFires
    \/ \E h \in handlers : AlarmCheck(h)
    \/ ReaperSteps
    \/ Tick

SpecDisabled == DisabledInit /\ [][DisabledNext]_vars

(***************************************************************************)
(* Claims on the Enforcement Policy.                                       *)
(***************************************************************************)

\* C1: every tab closeTab removes, whether for handleTabCreated,
\* handleTabUpdated or checkPendingTab, is the tab whose event started that
\* handler; no other tab is ever its target.
C1_OnlyTriggeringTabClosed ==
    /\ lastClose.by # "none" => lastClose.tab = lastClose.trigger
    /\ \A h \in handlers : h.pc = "remove" => h.target = h.tab

\* A pending tab that got a URL off the allowlist was closed by
\* handleTabUpdated while the first tab stayed open.
C1_Witness ==
    /\ lastClose.by = "updated"
    /\ lastClose.tab = lastClose.trigger
    /\ 1 \in DOMAIN tabs /\ lastClose.tab # 1

\* C2 as stated: extension enabled, allowlisting disabled; handleTabCreated
\* calls closeTab, on the created tab, exactly when the scope's count at its
\* query is above maxTabs.
C2_AsStated ==
    (lastCreated.tab # 0 /\ settings.enabled /\ ~settings.allowlistEnabled)
        => ((lastCreated.closeIssued /\ lastCreated.target = lastCreated.tab)
               <=> lastCreated.raw > settings.maxTabs)

\* C2 amended: the same for a created tab that is not marked as restored
\* from the corral; a marked tab is never closed by handleTabCreated.
C2_CreatedOverLimitClosed ==
    (lastCreated.tab # 0 /\ settings.enabled /\ ~settings.allowlistEnabled)
        => IF lastCreated.exempt
           THEN ~lastCreated.closeIssued
           ELSE (lastCreated.closeIssued /\ lastCreated.target = lastCreated.tab)
                   <=> lastCreated.raw > settings.maxTabs

\* The created tab pushed its scope over the limit and is the one tab that
\* was closed; the first tab is still open.
C2_Witness ==
    /\ settings.enabled /\ ~settings.allowlistEnabled
    /\ ~lastCreated.exempt /\ lastCreated.closeIssued
    /\ lastCreated.raw > settings.maxTabs
    /\ lastClose.by = "created" /\ lastClose.tab = lastCreated.tab
    /\ lastCreated.tab \notin DOMAIN tabs
    /\ 1 \in DOMAIN tabs

\* no handler is in flight
Quiescent == handlers = {}

C6_RestoredTabKeptInGrace == ~lastClose.grace

\* C7: each tab closeTab removes raises the stored blockedTotal,
\* blockedToday and blockedWeek by exactly one and sets lastBlockDate to
\* today: with every handler done, the counters stand at the number of tabs
\* closed (the day does not change in this specification).
C7_EachCloseCountedOnce ==
    Quiescent =>
        /\ stats.blockedTotal = closedCount
        /\ stats.blockedToday = closedCount
        /\ stats.blockedWeek = closedCount
        /\ closedCount > 0 => stats.lastBlockDate = today

\* the URL handleTabCreated was given is known and on the allowlist
CreatedAllowlisted ==
    /\ lastCreated.tab # 0
    /\ settings.enabled /\ settings.allowlistEnabled
    /\ isRealUrl(lastCreated.url)
    /\ isUrlAllowed(lastCreated.url, settings.allowlist)

\* C8 as stated: allowlisting enabled; a created tab whose URL is known and
\* allowlisted is not closed by handleTabCreated, is added to allowlistTabs,
\* and is not counted while it shows that URL.
C8_AsStated ==
    CreatedAllowlisted
        => /\ ~lastCreated.closeIssued
           /\ lastCreated.tracked
           /\ lastCreated.sameUrl => ~lastCreated.selfCounted

\* C8 amended: a tab marked as restored from the corral is not closed
\* either, but is not added to allowlistTabs; every other such tab is.
C8_AllowlistedCreatedKept ==
    CreatedAllowlisted
        => /\ ~lastCreated.closeIssued
           /\ ~lastCreated.exempt =>
                 /\ lastCreated.tracked
                 /\ lastCreated.sameUrl => ~lastCreated.selfCounted

\* An allowlisted tab was created with its scope over the limit, is still
\* open and is tracked.
C8_Witness ==
    /\ CreatedAllowlisted /\ ~lastCreated.exempt
    /\ lastCreated.raw > settings.maxTabs + 1
    /\ lastCreated.tracked /\ lastCreated.sameUrl /\ ~lastCreated.selfCounted
    /\ lastCreated.tab \in DOMAIN tabs
    /\ lastCreated.tab \in allowlistTabs


(***************************************************************************)
(* Claims about handleTabUpdated, checked under SpecUpdate.                *)
(***************************************************************************)

\* the step in which handler h runs up to its next await or to its end
Steps(h) == h \in handlers /\ h \notin handlers'

C15_PendingEventuallyLeaves ==
    /\ \A t \in TabIds : (t \in pendingTabs) ~> (t \notin pendingTabs)
    /\ [][\A h \in handlers :
             (h.kind = "pending" /\ Steps(h)) =>
                /\ (h.pc = "get" /\ h.tab \in DOMAIN tabs
                        /\ createdOutcome([h EXCEPT !.cnt = settings.maxTabs + 1,
                                                    !.url = tabs[h.tab].url]) = "keep")
                      => /\ h.tab \in allowlistTabs'
                         /\ handlers' = handlers \ {h}
                         /\ tabs' = tabs
                /\ h.pc = "count"
                      => ( (\E k \in handlers' : k.kind = "pending" /\ k.tab = h.tab
                                                  /\ k.pc = "remove")
                           <=> createdOutcome([h EXCEPT !.cnt =
                                   getCurrentTabCount(h.win, settings)]) # "keep" )
       ]_vars

\* a tab is pending and its timeout check is still to come
C15_Witness ==
    \E t \in pendingTabs :
        /\ [kind |-> "pending", tab |-> t] \in timers
        /\ t \in DOMAIN tabs
        /\ ~\E h \in handlers : h.tab = t

\* C16: a tab-created handler, a navigation-update handler or a
\* pending-timeout check that reads settings.enabled = false ends there:
\* it closes no tab, tracks and registers nothing and writes nothing,
\* whatever the count.
C16_DisabledHandlersDoNothing ==
    [][\A h \in handlers :
          ( /\ h.kind \in {"created", "updated", "pending"}
            /\ h.pc = "start" /\ Steps(h)
            /\ ~settings.enabled )
          => /\ handlers' = handlers \ {h}
             /\ UNCHANGED <<tabs, memVars, timers, storeVars, closedCount>>
      ]_vars

\* disabled and at rest with three tabs, maxTabs being 1, and none closed:
\* tab 2 opened with no URL and was set pending before the toggle, its
\* timeout check ran after it (tab 2 still has no URL and is not pending),
\* and another tab has navigated
C16_Witness ==
    /\ ~settings.enabled
    /\ settings.maxTabs = 1
    /\ handlers = {} /\ timers = {}
    /\ closedCount = 0
    /\ DOMAIN tabs = {1, 2, 3}
    /\ getCurrentTabCount(1, settings) > settings.maxTabs
    /\ lastCreated.tab = 2 /\ ~lastCreated.closeIssued /\ lastCreated.url = NoUrl
    /\ tabs[1].url = UrlB /\ tabs[2].url = NoUrl
    /\ pendingTabs = {}
    /\ envCount.nav = 1
(***************************************************************************)
(* Claims on the Inactivity Reaper (SpecReaper).                           *)
(***************************************************************************)
PassWindows == {lastPass.snap[t].windowId : t \in DOMAIN lastPass.snap}

\* the tabs of window w in the pass's snapshot, those not active, and those
\* the pass chose to close
PassTabs(w) == {t \in DOMAIN lastPass.snap : lastPass.snap[t].windowId = w}
PassNonActive(w) == {t \in PassTabs(w) : ~lastPass.snap[t].active}
PassClosed(w) == {t \in PassTabs(w) : t \in SeqRange(lastPass.close)}

\* C4: in every pass and every window, the tabs the window had at the start
\* less the tabs the pass closes there is at least minTabs, and a window that
\* starts at or below minTabs loses none.
C4_FloorKept ==
    lastPass.ran =>
        \A w \in PassWindows :
            IF Cardinality(PassTabs(w)) <= settings.minTabs
            THEN PassClosed(w) = {}
            ELSE Cardinality(PassTabs(w)) - Cardinality(PassClosed(w)) >= settings.minTabs

\* A window above the floor had more idle candidates than the floor lets
\* go: the pass closed down to exactly minTabs and deferred a candidate.
C4_Witness ==
    /\ lastPass.ran
    /\ settings.minTabs > 0
    /\ \E w \in PassWindows :
          /\ PassClosed(w) # {}
          /\ Cardinality(PassTabs(w)) - Cardinality(PassClosed(w)) = settings.minTabs
          /\ \E t \in lastPass.defer : t \in PassTabs(w)

\* C5 as stated: a window whose non-active tabs number at most minTabs
\* loses no tab in a pass.
C5_AsStated ==
    lastPass.ran =>
        \A w \in PassWindows :
            Cardinality(PassNonActive(w)) <= settings.minTabs => PassClosed(w) = {}

\* C5 amended: the floor counts the active tab too.  A window whose tabs,
\* the active one included, number at most minTabs loses none; a window
\* whose non-active tabs number at most minTabs loses at most as many tabs
\* as it has active ones.
C5_FloorCountsActiveTab ==
    lastPass.ran =>
        \A w \in PassWindows :
            /\ Cardinality(PassTabs(w)) <= settings.minTabs => PassClosed(w) = {}
            /\ Cardinality(PassNonActive(w)) <= settings.minTabs =>
                  Cardinality(PassClosed(w)) <=
                      Cardinality(PassTabs(w)) - Cardinality(PassNonActive(w))

\* The scenario: minTabs = 2, a window of one active tab and two idle
\* unprotected tabs, both candidates; the pass closes one and defers one.
C5_Witness ==
    /\ lastPass.ran
    /\ settings.minTabs = 2
    /\ \E w \in PassWindows :
          /\ Cardinality(PassNonActive(w)) = 2
          /\ PassNonActive(w) \subseteq SeqRange(lastPass.tabsToClose)
          /\ Cardinality(PassClosed(w)) = 1
          /\ Cardinality(PassNonActive(w) \cap lastPass.defer) = 1


\* C24: every tab a pass closes was, in the pass's snapshot, not active, not
\* an internal page, not pinned while protectPinned, not audible while
\* protectAudible, not allowlisted while protectAllowlist and allowlisting
\* are on, and had a recorded last use at least inactiveMinutes before the
\* pass; with inactiveEnabled off no pass gets past reading the settings.
C24_OnlyIdleUnprotectedClosed ==
    /\ lastPass.ran =>
          \A t \in SeqRange(lastPass.close) :
              LET tab == lastPass.snap[t]
              IN  /\ ~tab.active
                  /\ ~isInternalUrl(tab.url)
                  /\ ~(settings.protectPinned /\ tab.pinned)
                  /\ ~(settings.protectAudible /\ tab.audible)
                  /\ ~(/\ settings.protectAllowlist /\ settings.allowlistEnabled
                        /\ isUrlAllowed(tab.url, settings.allowlist))
                  /\ t \in DOMAIN lastPass.before
                  /\ lastPass.before[t] > 0
                  /\ lastPass.at - lastPass.before[t] >= settings.inactiveMinutes
    /\ ~settings.inactiveEnabled =>
          /\ ~lastPass.ran
          /\ reaper.pc \in {"idle", "getSettings"}
          /\ stats.inactiveClosed = 0

\* a pass closed an idle tab and left a protected tab that had been idle as
\* long
C24_Witness ==
    /\ lastPass.ran /\ lastPass.close # <<>>
    /\ settings.protectPinned
    /\ \E t \in DOMAIN lastPass.snap, c \in SeqRange(lastPass.close) :
          /\ lastPass.snap[t].pinned \/ lastPass.snap[t].audible
             \/ isUrlAllowed(lastPass.snap[t].url, settings.allowlist)
          /\ t \in DOMAIN lastPass.before
          /\ lastPass.before[t] > 0
          /\ lastPass.before[t] <= lastPass.before[c]

\* C25: within one pass no candidate is closed while a candidate of the same
\* window that has been idle strictly longer is deferred.
C25_LongestIdleClosedFirst ==
    lastPass.ran =>
        \A c \in SeqRange(lastPass.close), d \in lastPass.defer :
            lastPass.snap[c].windowId = lastPass.snap[d].windowId
                => lastPass.before[c] <= lastPass.before[d]

\* the floor let one of two candidates of a window go: the one closed had
\* been idle strictly longer, and it is the later one in the host's order
C25_Witness ==
    /\ lastPass.ran
    /\ \E c \in SeqRange(lastPass.close), d \in lastPass.defer :
          /\ lastPass.snap[c].windowId = lastPass.snap[d].windowId
          /\ lastPass.before[c] < lastPass.before[d]
          /\ c > d

\* the candidates the last pass did not close
Deferred == SeqRange(lastPass.tabsToClose) \ SeqRange(lastPass.close)

PassEntries == {i \in 1..Len(tabCorral) : tabCorral[i].closedAt = lastPass.corralAt}

C12_ThrottledCallChangesNothing ==
    [][ /\ ( /\ lastTrigger' # lastTrigger
             /\ lastTrigger'.throttled \/ lastTrigger'.running )
           => UNCHANGED <<tabs, tabLastAccessed, storeVars, reaper, lastPass>>
        /\ ( ~reaper.running /\ reaper'.running )
           => /\ lastTrigger'.started
              /\ lastTrigger'.force \/ ~(now - reaper.lastCheck < 1)
      ]_vars

\* a pass closed a tab and ended, and a call that was not forced came in
\* the same throttle window and was turned away
C12_Witness ==
    /\ lastPass.ran /\ lastPass.close # <<>>
    /\ ~reaper.running
    /\ now = reaper.lastCheck
    /\ ~lastTrigger.force /\ lastTrigger.throttled
    /\ ~lastTrigger.running /\ ~lastTrigger.started

\* C23: at most one execution of _doInactiveCheck is in progress at any time,
\* and a call of checkInactiveTabs that arrives while one is running, forced
\* or not, leaves the Reaper as it is.
C23_OnePassAtATime ==
    /\ [](reaper.passes <= 1)
    /\ [][(lastTrigger' # lastTrigger /\ reaper.passes > 0) => UNCHANGED reaper]_vars

\* the alarm's forced call came while a pass was waiting for its removals
C23_Witness ==
    /\ reaper.passes = 1 /\ reaper.pc = "remove"
    /\ lastTrigger.force /\ lastTrigger.running /\ ~lastTrigger.started
(***************************************************************************)
(* Claims on the Accountant (SpecCount).                                   *)
(***************************************************************************)
\* The host name the browser reports for a tab's URL.
HostOf(t) == UrlHostname(tabs[t].url)

MatchesEntry(h, e) == h = e \/ endsWith(h, Dot \o e)
MerelyEndsWith(h, e) == endsWith(h, e) /\ ~MatchesEntry(h, e)

\* C9 as stated: while allowlisting is on, a tab whose host name equals an
\* entry or ends with "." + entry is left out of the count, a host name that
\* only ends with the entry (no dot) is counted, and with allowlisting off
\* every tab of the scope is counted.
C9_AsStated ==
    lastQuery.asked =>
        \A t \in lastQuery.scope :
            /\ ~lastQuery.allowlistEnabled => t \in lastQuery.counted
            /\ \A i \in 1..Len(settings.allowlist) :
                 LET e == settings.allowlist[i]
                 IN  /\ (lastQuery.allowlistEnabled /\ MatchesEntry(HostOf(t), e))
                            => t \notin lastQuery.counted
                     /\ (lastQuery.allowlistEnabled /\ MerelyEndsWith(HostOf(t), e))
                            => t \in lastQuery.counted

\* C9 amended: the same, the dot-less case claimed only for an entry that
\* does not itself begin with "www." (the entry loses that prefix before the
\* comparison, so "awww.b" is left out of the count under entry "www.b").
C9_ExcludedWhileEnabled ==
    lastQuery.asked =>
        \A t \in lastQuery.scope :
            /\ ~lastQuery.allowlistEnabled => t \in lastQuery.counted
            /\ \A i \in 1..Len(settings.allowlist) :
                 LET e == settings.allowlist[i]
                 IN  /\ (lastQuery.allowlistEnabled /\ MatchesEntry(HostOf(t), e))
                            => t \notin lastQuery.counted
                     /\ (lastQuery.allowlistEnabled /\ MerelyEndsWith(HostOf(t), e)
                           /\ ~startsWith(e, Www))
                            => t \in lastQuery.counted

\* Witness of C9: a tab on a sub-domain of the entry was left out of the
\* previous count and, allowlisting now off, is counted by this one.
C9_Witness ==
    /\ lastQuery.asked
    /\ ~lastQuery.allowlistEnabled
    /\ \E t \in lastQuery.prevExcluded \cap lastQuery.counted :
          /\ Len(settings.allowlist) > 0
          /\ endsWith(HostOf(t), Dot \o settings.allowlist[1])

\* C10: with allowlisting off, the answer of getCurrentTabCount is the
\* number of tabs the host reports for the scope, the window's tabs in
\* per-window mode and all tabs in global mode, whatever the allowlist holds.
C10_RawCountWhenAllowlistOff ==
    (lastQuery.asked /\ ~lastQuery.allowlistEnabled) =>
        lastQuery.count =
            Cardinality({t \in DOMAIN tabs :
                            lastQuery.globalLimit \/ tabs[t].windowId = lastQuery.windowId})

\* Witness of C10: allowlisting off, a non-empty allowlist that matches an
\* open tab, and a global count of both windows' tabs.
C10_Witness ==
    /\ lastQuery.asked
    /\ ~lastQuery.allowlistEnabled
    /\ lastQuery.globalLimit
    /\ lastQuery.count = 2
    /\ \E t \in DOMAIN tabs : isUrlAllowed(tabs[t].url, settings.allowlist)

(***************************************************************************)
(* Claims about the corral, checked under SpecCorral.                      *)
(***************************************************************************)

\* the places of list c that hold an entry for URL u
EntriesFor(c, u) == {i \in 1..Len(c) : c[i].url = u}

\* the URLs of the tabs addToCorral was called with
ClosedUrls == {lastCorralOp.closed[i].url : i \in 1..Len(lastCorralOp.closed)}

ExactAdd == lastCorralOp.op = "add" /\ lastCorralOp.s.wrangleOption = "exactURLMatch"

\* C13 as stated: under exact-URL dedup, after addToCorral adds a tab whose
\* URL already has an entry, the corral holds exactly one entry for that
\* URL, the new one, at the front of the list.
C13_AsStated ==
    ExactAdd =>
        \A u \in ClosedUrls :
            EntriesFor(lastCorralOp.before, u) # {}
                => /\ EntriesFor(lastCorralOp.after, u) = {1}
                   /\ lastCorralOp.after[1].closedAt = lastCorralOp.at

\* C13 amended: under exact-URL dedup, after addToCorral was called with a
\* tab whose URL had exactly one entry, the corral holds at most one entry
\* for that URL, exactly one when the call's URLs fit in the limit; it is a
\* new entry (closedAt is the time of the call), it stands before every
\* entry the call did not add, and the front of the list is the entry of
\* the last tab of the call.
C13_ExactMatchReplacesSingleEntry ==
    ExactAdd =>
        LET op == lastCorralOp
            added == Cardinality(ClosedUrls)
        IN  /\ \A u \in ClosedUrls :
                  Cardinality(EntriesFor(op.before, u)) = 1
                      => /\ Cardinality(EntriesFor(op.after, u)) <= 1
                         /\ added <= corralLimit(op.s)
                               => Cardinality(EntriesFor(op.after, u)) = 1
                         /\ \A i \in EntriesFor(op.after, u) :
                               op.after[i].closedAt = op.at /\ i <= added
            /\ op.after # <<>>
                  => op.after[1] = CorralEntry(op.closed[Len(op.closed)].url, op.at)

\* the one entry of the allowlisted page was replaced by a newer one, in
\* front of another entry
C13_Witness ==
    /\ ExactAdd
    /\ lastCorralOp.closed = <<Tab(1, UrlA)>>
    /\ \E i \in 1..Len(lastCorralOp.before) :
          /\ EntriesFor(lastCorralOp.before, UrlA) = {i}
          /\ lastCorralOp.before[i].closedAt < lastCorralOp.at
    /\ Len(lastCorralOp.after) = 2
    /\ lastCorralOp.after[1] = CorralEntry(UrlA, lastCorralOp.at)
    /\ lastCorralOp.after[2].url = UrlB
    /\ tabCorral = lastCorralOp.after

\* the list lastCorralOp's addToCorral would have written with no limit
Untrimmed ==
    addToCorral(lastCorralOp.before, lastCorralOp.closed,
                [lastCorralOp.s EXCEPT !.corralMax = MaxCorralLen + 1], lastCorralOp.at)

NewestFirst(c) == \A i, j \in 1..Len(c) : i < j => c[i].closedAt >= c[j].closedAt

CleanRan == lastCorralOp.op = "clean"

\* the age of entry e when lastCorralOp ran, and its horizon, in minutes
AgeAtOp(e) == lastCorralOp.at - e.closedAt
Horizon == lastCorralOp.s.corralExpireHours * MinutesPerHour

NotOlderThanHorizon(e) == AgeAtOp(e) <= Horizon
YoungerThanHorizon(e) == AgeAtOp(e) < Horizon

\* C20 as stated: after cleanExpiredCorral with corralExpireHours = h > 0
\* the corral holds exactly the previous entries not older than the horizon,
\* in their previous order; with h = 0 it is unchanged.
C20_AsStated ==
    CleanRan =>
        lastCorralOp.after =
            IF lastCorralOp.s.corralExpireHours > 0
            THEN SelectSeq(lastCorralOp.before, NotOlderThanHorizon)
            ELSE lastCorralOp.before

\* C20 amended: after cleanExpiredCorral with corralExpireHours = h > 0 the
\* corral holds exactly the previous entries whose age is less than the
\* horizon (an entry exactly as old as the horizon is dropped), in their
\* previous order; with h = 0 it is unchanged.
C20_KeepsYoungerThanHorizon ==
    CleanRan =>
        lastCorralOp.after =
            IF lastCorralOp.s.corralExpireHours > 0
            THEN SelectSeq(lastCorralOp.before, YoungerThanHorizon)
            ELSE lastCorralOp.before

\* with a horizon of one hour, an entry closed an hour ago was dropped and
\* an entry closed this hour was kept
C20_Witness ==
    /\ CleanRan
    /\ lastCorralOp.s.corralExpireHours = 1
    /\ Len(lastCorralOp.before) = 2
    /\ AgeAtOp(lastCorralOp.before[1]) = 0
    /\ AgeAtOp(lastCorralOp.before[2]) = MinutesPerHour
    /\ lastCorralOp.after = <<lastCorralOp.before[1]>>
    /\ tabCorral = lastCorralOp.after
\* ---- claims on the count messages (SpecBroadcastFair) --------------------

PeriodicEndsOver(h) ==
    /\ h.kind = "periodic" /\ h.pc = "count"
    /\ handlers = {h} /\ handlers' = {} /\ timers = {}
    /\ ShownCount > settings.maxTabs

\* C18 as stated: when the count is over maxTabs with no enforcement left to
\* run, the count is within the limit once the next periodicCheck has ended.
C18_AsStated ==
    [][\A h \in handlers : PeriodicEndsOver(h) => ShownCount' <= settings.maxTabs]_vars
\* ---- claims on failing host calls (SpecFailure) --------------------------

\* C19 as stated: no handler ends with an uncaught rejection of a host API
\* call.
C19_AsStated == calls.outcome # "rejected"
\* ---- claims on the popup (SpecPopup) -------------------------------------

\* C21: the persisted settings always have maxTabs >= 1 and minTabs >= 0.
C21_LimitsStayInRange == settings.maxTabs >= 1 /\ settings.minTabs >= 0

\* both steppers were taken down to their lowest value and the result was
\* stored
C21_Witness ==
    /\ settings.maxTabs = 1 /\ settings.minTabs = 1
    /\ popup.open /\ popup.settings = settings
    /\ ~canDecreaseMaxTabs(popup.settings)
\* ---- claims on the stats (SpecStats) -------------------------------------

\* C22: a stats read answers blockedToday = 0 when the stored lastBlockDate
\* is not today, blockedWeek = 0 when the stored weekStartDate is not this
\* week's Sunday, the stored counter otherwise, and the stored blockedTotal.
C22_ReadResetsStaleCounters ==
    lastStats.asked =>
        LET s == lastStats.stored
            a == lastStats.answer
            sunday == lastStats.day - (lastStats.day % 7)
        IN  /\ a.blockedToday = IF s.lastBlockDate # lastStats.day THEN 0 ELSE s.blockedToday
            /\ a.blockedWeek = IF s.weekStartDate # sunday THEN 0 ELSE s.blockedWeek
            /\ a.blockedTotal = s.blockedTotal

\* a read on the day after a block, in the same week: today's counter is
\* reset, the week's is kept
C22_Witness ==
    /\ lastStats.asked
    /\ lastStats.stored.blockedToday > 0
    /\ lastStats.stored.lastBlockDate # lastStats.day
    /\ lastStats.answer.blockedToday = 0
    /\ lastStats.answer.blockedWeek > 0
(***************************************************************************)
(* Claims about the activation debounce and the flush of the activity map. *)
(***************************************************************************)

\* the skip rules of the scan, read off the snapshot of the last pass
SkippedAsProtected(t) ==
    LET tab == lastPass.snap[t]
    IN  \/ tab.active
        \/ isInternalUrl(tab.url)
        \/ settings.protectPinned /\ tab.pinned
        \/ settings.protectAudible /\ tab.audible
        \/ /\ settings.protectAllowlist /\ settings.allowlistEnabled
           /\ Len(settings.allowlist) > 0
           /\ isUrlAllowed(tab.url, settings.allowlist)

RefreshedByPass(t) == t \in DOMAIN lastPass.after /\ lastPass.after[t] = lastPass.at

\* the active tab whose debounce timer was pending when the pass scanned
DebouncedActive(t) == lastPass.snap[t].active /\ lastPass.debounce = t

WindowAboveFloor(t) ==
    Cardinality({x \in DOMAIN lastPass.snap :
                    lastPass.snap[x].windowId = lastPass.snap[t].windowId}) > lastPass.minTabs

\* C27 as stated: every tab a pass skips as active, internal or protected
\* leaves the pass with the pass's time as its timestamp, an active tab with
\* a pending activation debounce included.
C27_AsStated ==
    lastPass.ran => \A t \in DOMAIN lastPass.snap : SkippedAsProtected(t) => RefreshedByPass(t)

\* C27: every such tab is refreshed except the active tab whose activation
\* debounce is pending; that one keeps the timestamp it had, unless its
\* window is at the floor.
C27_SkippedRefreshedButDebounced ==
    lastPass.ran =>
        \A t \in DOMAIN lastPass.snap :
            /\ (SkippedAsProtected(t) /\ ~DebouncedActive(t)) => RefreshedByPass(t)
            /\ (DebouncedActive(t) /\ WindowAboveFloor(t)) =>
                  /\ t \in DOMAIN lastPass.after <=> t \in DOMAIN lastPass.before
                  /\ t \in DOMAIN lastPass.before => lastPass.after[t] = lastPass.before[t]

\* a pass met the active tab with its debounce pending and left its older
\* timestamp, and refreshed a protected tab of the same window
C27_Witness ==
    /\ lastPass.ran
    /\ \E t \in DOMAIN lastPass.snap :
          /\ DebouncedActive(t) /\ WindowAboveFloor(t)
          /\ t \in DOMAIN lastPass.after /\ lastPass.after[t] < lastPass.at
    /\ \E t \in DOMAIN lastPass.snap :
          /\ ~lastPass.snap[t].active /\ SkippedAsProtected(t)
          /\ lastPass.before[t] < lastPass.at /\ RefreshedByPass(t)

\* C29 as stated: at most one activation timer is pending, and a tab the
\* debounce callback stamps is the tab of the most recent activation.
C29_AsStated ==
    /\ Cardinality(activated.timeouts) <= 1
    /\ activated.stampedTab = activated.latestAtStamp

\* the alarm listener has begun, with the map dirty
TickMetDirty ==
    /\ ~\E h \in handlers : h.kind = "alarm"
    /\ \E h \in handlers' : h.kind = "alarm" /\ h.was

\* the tick's write of the whole map is made before its other work, and the
\* debounce timer is cancelled
C30_TickFlushesFirst ==
    /\ [](\A h \in handlers :
            (h.kind = "alarm" /\ h.pc = "check" /\ h.was) =>
                \A i \in 1..Len(persist.inflight) : persist.inflight[i].by # "alarm")
    /\ [][TickMetDirty =>
            /\ ~persist'.timer /\ ~persist'.dirty
            /\ persist'.inflight # <<>>
            /\ persist'.inflight[Len(persist'.inflight)].data = tabLastAccessed]_vars

\* the write of an alarm tick has not answered yet
TickWriteUnderWay == \E i \in 1..Len(persist.inflight) : persist.inflight[i].by = "alarm"

\* C30 as stated: on an alarm tick that meets the map dirty the whole map is
\* written before the tick's other work and the debounce timer is cancelled,
\* and a change of the map made while that write is under way leaves the map
\* marked dirty (or is made by a pass that will write the map itself).
C30_AsStated ==
    /\ C30_TickFlushesFirst
    /\ [][(TickWriteUnderWay /\ tabLastAccessed' # tabLastAccessed) =>
            persist'.dirty \/ reaper'.pc = "remove"]_vars
(***************************************************************************)
(* Claims about the runtime messages of the popup.                         *)
(***************************************************************************)

\* C31 as stated: the listener's handling of CHECK_INACTIVE_TABS starts an
\* inactivity pass, and every message of the popup that the listener has
\* handled went to a case of its own in the listener's switch.
C31_AsStated ==
    /\ messages.last.type = "CHECK_INACTIVE_TABS" => messages.last.pass
    /\ messages.last.type \in PopupRequests => messages.last.case # "default"
(***************************************************************************)
(* Claims about the friction modal.                                        *)
(***************************************************************************)
\* the typed text equals the displayed phrase, both trimmed, letter case ignored
SamePhrase(typed, phrase) == toLowerCase(trim(typed)) = toLowerCase(trim(phrase))

\* the step is confirmFrictionAction for the action, past a matching phrase
ConfirmedStep(action) ==
    /\ popup'.hides = popup.hides + 1
    /\ popup.action = action
    /\ SamePhrase(popup.typed, popup.phrase)

\* C32: while the popup is open, its settings object goes from enabled to
\* disabled, from allowlist off to on, from locked to unlocked or from global
\* limit on to off only in confirmFrictionAction for that action after the
\* typed phrase matched the displayed one, and maxTabs does not change in a
\* step that starts with tabLimitLocked true.
C32_WeakeningOnlyByConfirmation ==
    [][(popup.open /\ popup'.open) =>
        /\ (popup.settings.enabled /\ ~popup'.settings.enabled) => ConfirmedStep("disable")
        /\ (~popup.settings.allowlistEnabled /\ popup'.settings.allowlistEnabled)
              => ConfirmedStep("allowlist")
        /\ (popup.settings.tabLimitLocked /\ ~popup'.settings.tabLimitLocked)
              => ConfirmedStep("unlock")
        /\ (popup.settings.globalLimit /\ ~popup'.settings.globalLimit)
              => ConfirmedStep("disableGlobal")
        /\ popup.settings.tabLimitLocked
              => popup'.settings.maxTabs = popup.settings.maxTabs]_vars

\* protection was switched off by a confirmation whose typed text differs from
\* the phrase in letter case or outer spaces, and the limit is locked
C32_Witness ==
    /\ popup.open /\ popup.hides > 0
    /\ popup.action = "disable" /\ ~popup.settings.enabled
    /\ popup.typed # popup.phrase
    /\ popup.settings.tabLimitLocked

(***************************************************************************)
(* Claims about interleavings of the handlers.                             *)
(***************************************************************************)
\* handleTabCreated calls closeTab in this step
CreatedIssuesClose(h) ==
    /\ h \in handlers /\ h.kind = "created" /\ h.pc = "decide"
    /\ h \notin handlers' /\ BeginClose(h) \in handlers'

\* C33 as stated: when handleTabCreated calls closeTab on its tab, still open,
\* the tab's scope counts more than maxTabs at that moment, whatever other tab
\* was closed or removed since the handler's count query.
C33_AsStated ==
    [][\A h \in handlers :
          (CreatedIssuesClose(h) /\ h.tab \in DOMAIN tabs)
              => getCurrentTabCount(h.win, settings) > settings.maxTabs]_vars

\* no handler is under way and no pass of the Reaper is running
AllFinished == handlers = {} /\ ~reaper.running

\* the tabs the pass of the Reaper has removed
ReaperClosed == IF lastPass.ran THEN Cardinality(lastPass.removed) ELSE 0

\* C34 as stated: once every closeTab call and the Reaper's pass have
\* finished, blockedTotal stands at its initial value (0) plus the tabs closed
\* by enforcement and inactiveClosed at its initial value (0) plus the tabs
\* closed by the Reaper.
C34_AsStated ==
    AllFinished =>
        /\ stats.blockedTotal = closedCount
        /\ stats.inactiveClosed = ReaperClosed

Entries(corral) == {corral[k] : k \in DOMAIN corral}

\* restoreFromCorral stores the list without the entry it selected
RestoreStores(e) ==
    \E h \in handlers :
        /\ h.kind = "restore" /\ h.pc = "set" /\ h \notin handlers'
        /\ tabCorral' = h.corral /\ e.url = h.url

\* addToCorral stores its list
AddStores == reaper.pc = "corralSet" /\ reaper'.pc # "corralSet"

\* the step is one of the ways the sentence lets an entry leave the stored
\* list by: its restore, a clear, or addToCorral dropping it for a closed tab
\* of the same URL or host, or at the maximum length (no cleaning runs here)
LeavesAsStated(e) ==
    \/ RestoreStores(e)
    \/ tabCorral' = <<>> /\ handlers' = handlers /\ reaper' = reaper
    \/ /\ AddStores
       /\ \/ \E k \in DOMAIN reaper.closedTabs :
                /\ settings.wrangleOption # "withDupes"
                /\ reaper.closedTabs[k].url.host = e.url.host
          \/ Len(tabCorral') >= settings.corralMax

\* a restoreFromCorral call that has stored the list without its entry
PastStore(h) == h.kind = "restore" /\ h.pc \in {"create", "mark"}

\* C35 as stated: under addToCorral interleaved with restoreFromCorral and
\* clearCorral, an entry leaves the stored list only by its restore, dedup,
\* truncation or a clear, and the list holds no entry with the URL of an
\* entry that a restoreFromCorral call under way has taken out.
C35_AsStated ==
    [][/\ \A e \in Entries(tabCorral) \ Entries(tabCorral') : LeavesAsStated(e)
       /\ \A h \in handlers' :
             PastStore(h) => \A e \in Entries(tabCorral') : e.url # h.url]_vars

(***************************************************************************)
(* Claims about restoreFromCorral.                                         *)
(***************************************************************************)
\* restoreFromCorral returns false in this step: at its index check or in its
\* catch (it returns true only after it has marked the tab it opened)
AnswersFalse ==
    \E h \in handlers :
        /\ h.kind = "restore" /\ h.pc \in {"get", "create"}
        /\ ~\E h2 \in handlers' : h2.kind = "restore"

\* C36 as stated: when a RESTORE_FROM_CORRAL request is answered
\* {success: false}, the stored corral is the one the request met and no tab
\* has been opened since, for an index out of range and for a reopening that
\* failed.
C36_AsStated ==
    [][AnswersFalse =>
          /\ tabCorral' = messages.last.corral
          /\ DOMAIN tabs' = messages.last.tabs]_vars

\* the tabs of the last pass whose removal was rejected
FailedRemovals == SeqRange(lastPass.close) \ lastPass.removed

\* C37 as stated: when a pass has saved its statistics, each entry it put
\* into the corral is for a tab it removed, inactiveClosed has risen by the
\* number of tabs removed, and a tab whose removal was rejected and that is
\* still open has its last-accessed entry.
C37_AsStated ==
    (lastPass.ran /\ lastPass.done) =>
        /\ \A i \in PassEntries :
              \E t \in lastPass.removed : lastPass.snap[t].url = tabCorral[i].url
        /\ stats.inactiveClosed = lastPass.closedBefore + Cardinality(lastPass.removed)
        /\ \A t \in FailedRemovals \cap DOMAIN tabs : t \in DOMAIN tabLastAccessed

(***************************************************************************)
(* Claims about what is left of a removed tab.                             *)
(***************************************************************************)
\* no handler, timer, pass or write of the activity map is pending
NothingPending ==
    /\ handlers = {} /\ timers = {} /\ activated.timeouts = {}
    /\ ~reaper.running
    /\ ~persist.timer /\ ~persist.dirty /\ persist.inflight = <<>>

\* the ids of the tabs that have been removed (every id was open at the start)
RemovedIds == TabIds \ DOMAIN tabs

\* C38 as stated: with nothing pending, the id of a removed tab is not in the
\* pending map, the allowlisted-tab set, the last-accessed map or the stored
\* tabActivity.
C38_AsStated ==
    NothingPending =>
        \A t \in RemovedIds :
            /\ t \notin pendingTabs /\ t \notin allowlistTabs
            /\ t \notin DOMAIN tabLastAccessed
            /\ t \notin DOMAIN persist.stored

\* C39 as stated: in every reachable state no tab id is both in the pending
\* map and in the allowlisted-tab set.
C39_AsStated == pendingTabs \cap allowlistTabs = {}

\* C40 as stated: while settings.enabled is false no step of the extension
\* removes a tab, the Reaper's included, even with inactiveEnabled true.
C40_AsStated ==
    [][~settings.enabled => DOMAIN tabs \subseteq DOMAIN tabs']_vars


====
